---------------------------- MODULE Spec2Model ----------------------------
(***************************************************************************)
(* sitemapExport: feed detection, the sitemap and RSS crawlers, the URL    *)
(* filter and the rewriting of relative links.                             *)
(*                                                                         *)
(* Strings are sequences of one-character strings, so that prefixes,       *)
(* cuts and URL parsing are computed rather than assumed.                  *)
(***************************************************************************)
EXTENDS Integers, Sequences, FiniteSets, TLC

(***************************************************************************)
(* Go strings package, on character sequences.                             *)
(***************************************************************************)
HasPrefix(s, p) == Len(p) <= Len(s) /\ SubSeq(s, 1, Len(p)) = p

HasSuffix(s, p) == Len(p) <= Len(s) /\ SubSeq(s, Len(s) - Len(p) + 1, Len(s)) = p

TrimPrefix(s, p) == IF HasPrefix(s, p) THEN SubSeq(s, Len(p) + 1, Len(s)) ELSE s

TrimSuffix(s, p) == IF HasSuffix(s, p) THEN SubSeq(s, 1, Len(s) - Len(p)) ELSE s

\* strings.Index for a one-character separator; 0 when absent (Go: -1)
IndexByte(s, c) ==
    IF \E i \in 1..Len(s) : s[i] = c
    THEN CHOOSE i \in 1..Len(s) : s[i] = c /\ \A j \in 1..(i - 1) : s[j] # c
    ELSE 0

\* strings.LastIndex for a one-character separator; 0 when absent
LastIndexByte(s, c) ==
    IF \E i \in 1..Len(s) : s[i] = c
    THEN CHOOSE i \in 1..Len(s) : s[i] = c /\ \A j \in (i + 1)..Len(s) : s[j] # c
    ELSE 0

\* strings.Cut(s, c): before, after, found; i is the index of the separator
CutAt(s, i) ==
    IF i = 0
    THEN [before |-> s, after |-> <<>>, found |-> FALSE]
    ELSE [before |-> SubSeq(s, 1, i - 1),
          after  |-> SubSeq(s, i + 1, Len(s)),
          found  |-> TRUE]

Cut(s, c) == CutAt(s, IndexByte(s, c))

Count(s, c) == Cardinality({i \in 1..Len(s) : s[i] = c})

Contains(s, c) == IndexByte(s, c) # 0

\* strings.Split(s, ",") for a one-character separator
RECURSIVE Split(_, _)
SplitCut(k, c) == IF k.found THEN <<k.before>> \o Split(k.after, c) ELSE <<k.before>>

Split(s, c) == SplitCut(Cut(s, c), c)

(***************************************************************************)
(* Character classes of net/url.                                           *)
(***************************************************************************)
LowerLetters ==
    {"a", "b", "c", "d", "e", "f", "g", "h", "i", "j", "k", "l", "m",
     "n", "o", "p", "q", "r", "s", "t", "u", "v", "w", "x", "y", "z"}

UpperLetters ==
    {"A", "B", "C", "D", "E", "F", "G", "H", "I", "J", "K", "L", "M",
     "N", "O", "P", "Q", "R", "S", "T", "U", "V", "W", "X", "Y", "Z"}

Digits == {"0", "1", "2", "3", "4", "5", "6", "7", "8", "9"}

IsLetter(c) == c \in LowerLetters \cup UpperLetters

\* bytes below 0x20 and 0x7f
IsCTL(c) == c \in {"\n", "\r", "\t"}

ToLowerChar(c) ==
    CASE c = "A" -> "a" [] c = "B" -> "b" [] c = "C" -> "c" [] c = "D" -> "d"
      [] c = "E" -> "e" [] c = "F" -> "f" [] c = "G" -> "g" [] c = "H" -> "h"
      [] c = "I" -> "i" [] c = "J" -> "j" [] c = "K" -> "k" [] c = "L" -> "l"
      [] c = "M" -> "m" [] c = "N" -> "n" [] c = "O" -> "o" [] c = "P" -> "p"
      [] c = "Q" -> "q" [] c = "R" -> "r" [] c = "S" -> "s" [] c = "T" -> "t"
      [] c = "U" -> "u" [] c = "V" -> "v" [] c = "W" -> "w" [] c = "X" -> "x"
      [] c = "Y" -> "y" [] c = "Z" -> "z"
      [] OTHER -> c

ToLower(s) == [i \in 1..Len(s) |-> ToLowerChar(s[i])]

IsHex(c) == c \in Digits \cup {"a", "b", "c", "d", "e", "f", "A", "B", "C", "D", "E", "F"}

HexVal(c) ==
    CASE c = "0" -> 0 [] c = "1" -> 1 [] c = "2" -> 2 [] c = "3" -> 3
      [] c = "4" -> 4 [] c = "5" -> 5 [] c = "6" -> 6 [] c = "7" -> 7
      [] c = "8" -> 8 [] c = "9" -> 9
      [] c \in {"a", "A"} -> 10 [] c \in {"b", "B"} -> 11
      [] c \in {"c", "C"} -> 12 [] c \in {"d", "D"} -> 13
      [] c \in {"e", "E"} -> 14 [] c \in {"f", "F"} -> 15

\* the byte a %XX escape stands for, for the bytes the inputs escape
ByteChar(n) ==
    CASE n = 32 -> " " [] n = 42 -> "*" [] n = 47 -> "/" [] n = 98 -> "b"
      [] OTHER -> "?"

(***************************************************************************)
(* net/url, as used by matchesFilter, getDomainFromURL, isRelativeURL and  *)
(* toAbsoluteURL.  Userinfo ("@") and IPv6 literals ("[") are outside the  *)
(* alphabet of the inputs and are not modelled.                            *)
(***************************************************************************)
EmptyURL ==
    [Scheme |-> <<>>, Opaque |-> <<>>, Host |-> <<>>, Path |-> <<>>,
     EscPath |-> <<>>, ForceQuery |-> FALSE, RawQuery |-> <<>>,
     Fragment |-> <<>>, EscFragment |-> <<>>, OmitHost |-> FALSE]

ParseError == [ok |-> FALSE, url |-> EmptyURL]

ParseOK(u) == [ok |-> TRUE, url |-> u]

\* url.getScheme: the index at which the scan of the scheme stops, 0 at the end
SchemeStop(raw) ==
    LET stops == {i \in 1..Len(raw) :
                    /\ ~IsLetter(raw[i])
                    /\ ~(i > 1 /\ raw[i] \in Digits \cup {"+", "-", "."})}
    IN  IF stops = {} THEN 0
        ELSE CHOOSE i \in stops : \A j \in stops : i <= j

SchemeAt(raw, i) ==
    IF i = 0 \/ raw[i] # ":"
    THEN [ok |-> TRUE, scheme |-> <<>>, rest |-> raw]
    ELSE IF i = 1
    THEN [ok |-> FALSE, scheme |-> <<>>, rest |-> <<>>]
    ELSE [ok |-> TRUE, scheme |-> SubSeq(raw, 1, i - 1),
          rest |-> SubSeq(raw, i + 1, Len(raw))]

getScheme(raw) == SchemeAt(raw, SchemeStop(raw))

\* url.unescape in path and fragment mode: %XX decoded, a bad escape is an error
RECURSIVE ValidEscapes(_)
ValidEscapes(s) ==
    IF s = <<>> THEN TRUE
    ELSE IF Head(s) = "%"
    THEN Len(s) >= 3 /\ IsHex(s[2]) /\ IsHex(s[3])
         /\ ValidEscapes(SubSeq(s, 4, Len(s)))
    ELSE ValidEscapes(Tail(s))

RECURSIVE Decode(_)
Decode(s) ==
    IF s = <<>> THEN <<>>
    ELSE IF Head(s) = "%"
    THEN <<ByteChar(16 * HexVal(s[2]) + HexVal(s[3]))>> \o Decode(SubSeq(s, 4, Len(s)))
    ELSE <<Head(s)>> \o Decode(Tail(s))

unescape(s) ==
    IF ValidEscapes(s) THEN [ok |-> TRUE, s |-> Decode(s)]
    ELSE [ok |-> FALSE, s |-> <<>>]

\* url.shouldEscape(c, encodePath) / (c, encodeFragment)
shouldEscape(c, inFragment) ==
    ~ \/ IsLetter(c) \/ c \in Digits
      \/ c \in {"-", "_", ".", "~"}
      \/ c \in {"$", "&", "+", ",", "/", ":", ";", "=", "@"}
      \/ (inFragment /\ c \in {"?", "!", "(", ")", "*"})

\* url.validEncoded
validEncoded(s, inFragment) ==
    \A i \in 1..Len(s) :
        \/ s[i] \in {"!", "$", "&", "'", "(", ")", "*", "+", ",", ";", "=", ":", "@", "[", "]", "%"}
        \/ ~shouldEscape(s[i], inFragment)

\* url.escape on the characters of the inputs
RECURSIVE escape(_, _)
escape(s, inFragment) ==
    IF s = <<>> THEN <<>>
    ELSE (IF ~shouldEscape(Head(s), inFragment) THEN <<Head(s)>>
          ELSE CASE Head(s) = " " -> <<"%", "2", "0">>
                 [] Head(s) = "%" -> <<"%", "2", "5">>
                 [] Head(s) = "*" -> <<"%", "2", "A">>
                 [] Head(s) = "?" -> <<"%", "3", "F">>
                 [] Head(s) = "#" -> <<"%", "2", "3">>
                 [] OTHER -> <<Head(s)>>)
         \o escape(Tail(s), inFragment)

\* URL.setPath followed by URL.EscapedPath; d is unescape(p)
setPathDecoded(u, p, d) ==
    IF ~d.ok THEN ParseError
    ELSE ParseOK([u EXCEPT !.Path = d.s,
                           !.EscPath = IF validEncoded(p, FALSE) THEN p
                                       ELSE escape(d.s, FALSE)])

setPath(u, p) == setPathDecoded(u, p, unescape(p))

\* URL.setFragment followed by URL.EscapedFragment; d is unescape(f)
setFragmentDecoded(u, f, d) ==
    IF ~d.ok THEN ParseError
    ELSE ParseOK([u EXCEPT !.Fragment = d.s,
                           !.EscFragment = IF validEncoded(f, TRUE) THEN f
                                           ELSE escape(d.s, TRUE)])

setFragment(u, f) == setFragmentDecoded(u, f, unescape(f))

\* url.validOptionalPort
validOptionalPort(port) ==
    \/ port = <<>>
    \/ /\ port[1] = ":"
       /\ \A i \in 2..Len(port) : port[i] \in Digits

\* the characters url.unescape accepts in a host
ValidHostChar(c) ==
    \/ IsLetter(c) \/ c \in Digits
    \/ c \in {"!", "$", "&", "'", "(", ")", "*", "+", ",", ";", "=", ":",
              "[", "]", "<", ">", "-", "_", ".", "~"}

\* url.parseHost; i is the index of the last ":"
parseHostAt(host, i) ==
    /\ (i # 0 => validOptionalPort(SubSeq(host, i, Len(host))))
    /\ \A k \in 1..Len(host) : ValidHostChar(host[k])

parseHost(host) == parseHostAt(host, LastIndexByte(host, ":"))

\* url.parse: the authority a0 (the text after "//") and the path after it
parseAuthorityAt(u0, a0, i) ==
    IF ~parseHost(IF i = 0 THEN a0 ELSE SubSeq(a0, 1, i - 1)) THEN ParseError
    ELSE setPath([u0 EXCEPT !.Host = IF i = 0 THEN a0 ELSE SubSeq(a0, 1, i - 1)],
                 IF i = 0 THEN <<>> ELSE SubSeq(a0, i, Len(a0)))

parseAuthority(u0, a0) == parseAuthorityAt(u0, a0, IndexByte(a0, "/"))

\* url.parse: after the scheme and the query are split off
parseHier(u0, rest) ==
    IF ~HasPrefix(rest, <<"/">>) /\ u0.Scheme # <<>>
    THEN ParseOK([u0 EXCEPT !.Opaque = rest])
    ELSE IF ~HasPrefix(rest, <<"/">>) /\ Contains(Cut(rest, "/").before, ":")
    THEN ParseError
    ELSE IF (u0.Scheme # <<>> \/ ~HasPrefix(rest, <<"/", "/", "/">>))
            /\ HasPrefix(rest, <<"/", "/">>)
    THEN parseAuthority(u0, SubSeq(rest, 3, Len(rest)))
    ELSE setPath([u0 EXCEPT !.OmitHost = (u0.Scheme # <<>> /\ HasPrefix(rest, <<"/">>))],
                 rest)

\* url.parse: the split of the query; q is strings.Cut(rest, "?")
parseQuery(scheme, rest, q) ==
    IF HasSuffix(rest, <<"?">>) /\ Count(rest, "?") = 1
    THEN parseHier([EmptyURL EXCEPT !.Scheme = scheme, !.ForceQuery = TRUE],
                   SubSeq(rest, 1, Len(rest) - 1))
    ELSE parseHier([EmptyURL EXCEPT !.Scheme = scheme, !.RawQuery = q.after], q.before)

\* url.parse: g is getScheme(rawURL)
parseScheme(g) ==
    IF ~g.ok THEN ParseError
    ELSE parseQuery(ToLower(g.scheme), g.rest, Cut(g.rest, "?"))

\* url.parse(rawURL, viaRequest = false)
parse(raw) ==
    IF \E i \in 1..Len(raw) : IsCTL(raw[i]) THEN ParseError
    ELSE IF raw = <<"*">>
    THEN ParseOK([EmptyURL EXCEPT !.Path = <<"*">>, !.EscPath = <<"*">>])
    ELSE parseScheme(getScheme(raw))

\* url.Parse: p is parse of the text before "#", frag the text after it
ParseFragment(p, frag) ==
    IF ~p.ok THEN ParseError
    ELSE IF frag = <<>> THEN p
    ELSE setFragment(p.url, frag)

ParseCut(c) == ParseFragment(parse(c.before), c.after)

\* url.Parse
Parse(raw) == ParseCut(Cut(raw, "#"))

\* URL.IsAbs
IsAbs(u) == u.Scheme # <<>>

\* the loop of url.resolvePath over the "/"-separated elements of the path:
\* dst is the text written after the leading "/", first the flag of the code
RECURSIVE resolveElems(_, _, _)
resolveElems(elems, dst, first) ==
    IF elems = <<>> THEN dst
    ELSE LET elem == Head(elems)
         IN  IF elem = <<".">> THEN resolveElems(Tail(elems), dst, FALSE)
             ELSE IF elem = <<".", ".">>
             THEN LET index == LastIndexByte(dst, "/")
                  IN  IF index = 0 THEN resolveElems(Tail(elems), <<>>, TRUE)
                      ELSE resolveElems(Tail(elems), SubSeq(dst, 1, index - 1), first)
             ELSE resolveElems(Tail(elems),
                               (IF first THEN dst ELSE dst \o <<"/">>) \o elem, FALSE)

\* url.resolvePath: the cleaning of the joined path, split into its elements
resolveClean(elems) ==
    <<"/">> \o resolveElems(elems, <<>>, TRUE)
            \o (IF elems[Len(elems)] \in {<<".">>, <<".", ".">>} THEN <<"/">> ELSE <<>>)

resolveTrim(r) == IF Len(r) > 1 /\ r[2] = "/" THEN Tail(r) ELSE r

resolveFull(full) ==
    IF full = <<>> THEN <<>> ELSE resolveTrim(resolveClean(Split(full, "/")))

\* url.resolvePath
resolvePath(base, ref) ==
    resolveFull(IF ref = <<>> THEN base
                ELSE IF ref[1] # "/"
                THEN SubSeq(base, 1, LastIndexByte(base, "/")) \o ref
                ELSE ref)

\* URL.ResolveReference: the "abs_path" and "rel_path" cases; url is the copy
\* of ref with the query and fragment it inherits
resolveRelative(u, ref, url) ==
    IF ref.Path = <<>> /\ u.Opaque # <<>>
    THEN [url EXCEPT !.Opaque = u.Opaque, !.Host = <<>>, !.Path = <<>>, !.EscPath = <<>>]
    ELSE setPath([url EXCEPT !.Host = u.Host], resolvePath(u.EscPath, ref.EscPath)).url

\* URL.ResolveReference: url is the copy of ref with its scheme set
resolveCopy(u, ref, url) ==
    IF ref.Scheme # <<>> \/ ref.Host # <<>>
    THEN setPath(url, resolvePath(ref.EscPath, <<>>)).url
    ELSE IF ref.Opaque # <<>>
    THEN [url EXCEPT !.Host = <<>>, !.Path = <<>>, !.EscPath = <<>>]
    ELSE IF ref.Path = <<>> /\ ~ref.ForceQuery /\ ref.RawQuery = <<>>
    THEN resolveRelative(u, ref,
             [url EXCEPT !.RawQuery = u.RawQuery,
                         !.Fragment = IF ref.Fragment = <<>> THEN u.Fragment
                                      ELSE ref.Fragment,
                         !.EscFragment = IF ref.Fragment = <<>> THEN u.EscFragment
                                         ELSE ref.EscFragment])
    ELSE resolveRelative(u, ref, url)

\* URL.ResolveReference; setPath cannot fail on a path that parsed before
ResolveReference(u, ref) ==
    resolveCopy(u, ref,
                [ref EXCEPT !.Scheme = IF ref.Scheme = <<>> THEN u.Scheme ELSE ref.Scheme])

\* URL.String: head is the text written before the path
StringFrom(u, scheme, head) ==
    (IF u.Opaque # <<>> THEN scheme \o u.Opaque
     ELSE head
          \o (IF u.EscPath # <<>> /\ u.EscPath[1] # "/" /\ u.Host # <<>>
              THEN <<"/">> ELSE <<>>)
          \o (IF head = <<>> /\ Contains(Cut(u.EscPath, "/").before, ":")
              THEN <<".", "/">> ELSE <<>>)
          \o u.EscPath)
    \o (IF u.ForceQuery \/ u.RawQuery # <<>> THEN <<"?">> \o u.RawQuery ELSE <<>>)
    \o (IF u.Fragment # <<>> THEN <<"#">> \o u.EscFragment ELSE <<>>)

StringScheme(u, scheme) ==
    StringFrom(u, scheme,
               scheme \o (IF (u.Scheme # <<>> \/ u.Host # <<>>)
                             /\ ~(u.OmitHost /\ u.Host = <<>>)
                             /\ (u.Host # <<>> \/ u.Path # <<>>)
                          THEN <<"/", "/">> ELSE <<>>)
                      \o u.Host)

\* URL.String
String(u) == StringScheme(u, IF u.Scheme # <<>> THEN u.Scheme \o <<":">> ELSE <<>>)

(***************************************************************************)
(* crawler: the URL filter and the rewriting of relative links.            *)
(***************************************************************************)
\* strings.TrimRight(filter, "*") in the place of strings.TrimSuffix
RECURSIVE TrimRightStars(_)
TrimRightStars(f) ==
    IF HasSuffix(f, <<"*">>) THEN TrimRightStars(SubSeq(f, 1, Len(f) - 1)) ELSE f

\* a filter match that strips every trailing "*"
matchesParsedTrimRight(parsed, filter) ==
    IF ~parsed.ok THEN FALSE
    ELSE HasPrefix(TrimPrefix(parsed.url.Path, <<"/">>), TrimRightStars(filter))

\* matchesFilter: parsed is url.Parse(pageURL)
matchesParsed(parsed, filter) ==
    IF ~parsed.ok THEN FALSE
    ELSE HasPrefix(TrimPrefix(parsed.url.Path, <<"/">>), TrimSuffix(filter, <<"*">>))

\* a filter that lets every URL through
matchesFilterAll(pageURL, filter) == TRUE

\* matchesFilter(pageURL, filter)
matchesFilter(pageURL, filter) ==
    IF filter = <<>> \/ filter = <<"*">> THEN TRUE
    ELSE matchesParsed(Parse(pageURL), filter)

\* getDomainFromURL: Sprintf("%s://%s", parsedURL.Scheme, parsedURL.Host)
domainOf(parsedURL) ==
    IF ~parsedURL.ok THEN [ok |-> FALSE, domain |-> <<>>]
    ELSE [ok |-> TRUE,
          domain |-> parsedURL.url.Scheme \o <<":", "/", "/">> \o parsedURL.url.Host]

\* getDomainFromURL(pageURL)
getDomainFromURL(pageURL) == domainOf(Parse(pageURL))

\* isRelativeURL: u is url.Parse(link)
relativeParsed(u) == u.ok /\ ~IsAbs(u.url)

\* isRelativeURL(link)
isRelativeURL(link) == relativeParsed(Parse(link))

\* isAnchorLink(link)
isAnchorLink(link) == Len(link) > 0 /\ link[1] = "#"

\* toAbsoluteURL: u is url.Parse(relativeURL), baseURL is url.Parse(host)
resolveParsed(relativeURL, u, baseURL) ==
    IF ~u.ok THEN relativeURL
    ELSE IF ~baseURL.ok THEN relativeURL
    ELSE String(ResolveReference(baseURL.url, u.url))

\* toAbsoluteURL(host, relativeURL)
toAbsoluteURL(host, relativeURL) ==
    resolveParsed(relativeURL, Parse(relativeURL), Parse(host))

\* an element of a page that carries a link: tag "a" (href) or "img" (src),
\* has = the attribute exists, sel = the number of the selector match that
\* contains the element (0: outside every match)
LinkElem(tag, has, val, sel) == [tag |-> tag, has |-> has, val |-> val, sel |-> sel]

\* the closure convertToAbsolute(attr, tag) of fixRelativeUrls, on one element
convertToAbsolute(tag, e, hostDomain) ==
    IF e.tag = tag /\ e.has /\ isRelativeURL(e.val) /\ ~isAnchorLink(e.val)
    THEN [e EXCEPT !.val = toAbsoluteURL(hostDomain, e.val)]
    ELSE e

\* fixRelativeUrls(doc, hostDomain): the anchors' href, then the images' src
fixRelativeUrls(doc, hostDomain) ==
    [doc EXCEPT !.elems =
        [i \in 1..Len(doc.elems) |->
            convertToAbsolute("img",
                convertToAbsolute("a", doc.elems[i], hostDomain), hostDomain)]]

(***************************************************************************)
(* Go html package and golang.org/x/net/html tokenizer, as used by         *)
(* extractAndTransformContentFromText and sanitize.HTMLAllowing.  The      *)
(* inputs keep to: the entities below, tags closed by the first ">",       *)
(* no textarea, xmp, plaintext or noscript element.                        *)
(***************************************************************************)
Whitespace == {" ", "\t", "\n", "\f", "\r"}

\* the least j >= i with s[j] in S, Len(s) + 1 when there is none
SkipUntil(s, i, S) ==
    IF \E j \in i..Len(s) : s[j] \in S
    THEN CHOOSE j \in i..Len(s) : s[j] \in S /\ \A k \in i..(j - 1) : s[k] \notin S
    ELSE Len(s) + 1

\* the least j >= i with s[j] outside S, Len(s) + 1 when there is none
SkipWhile(s, i, S) ==
    IF \E j \in i..Len(s) : s[j] \notin S
    THEN CHOOSE j \in i..Len(s) : s[j] \notin S /\ \A k \in i..(j - 1) : s[k] \in S
    ELSE Len(s) + 1

HasPrefixAt(s, i, p) == i + Len(p) - 1 <= Len(s) /\ SubSeq(s, i, i + Len(p) - 1) = p

\* strings.Index(s[i:], p) as a position of s; 0 when absent
IndexFrom(s, p, i) ==
    IF \E j \in i..Len(s) : HasPrefixAt(s, j, p)
    THEN CHOOSE j \in i..Len(s) :
             HasPrefixAt(s, j, p) /\ \A k \in i..(j - 1) : ~HasPrefixAt(s, k, p)
    ELSE 0

ContainsStr(s, p) == IndexFrom(s, p, 1) # 0

\* the character references of the inputs
Entities ==
    <<[name |-> <<"&", "l", "t", ";">>, char |-> "<"],
      [name |-> <<"&", "g", "t", ";">>, char |-> ">"],
      [name |-> <<"&", "a", "m", "p", ";">>, char |-> "&"],
      [name |-> <<"&", "q", "u", "o", "t", ";">>, char |-> "\""],
      [name |-> <<"&", "#", "3", "4", ";">>, char |-> "\""],
      [name |-> <<"&", "#", "3", "9", ";">>, char |-> "'"]>>

EntityAt(s, i) ==
    IF \E k \in 1..Len(Entities) : HasPrefixAt(s, i, Entities[k].name)
    THEN CHOOSE k \in 1..Len(Entities) : HasPrefixAt(s, i, Entities[k].name)
    ELSE 0

RECURSIVE UnescapeFrom(_, _)
UnescapeEntity(s, i, k) ==
    IF k = 0 THEN <<s[i]>> \o UnescapeFrom(s, i + 1)
    ELSE <<Entities[k].char>> \o UnescapeFrom(s, i + Len(Entities[k].name))

\* j is the position of the next "&"
UnescapeAmp(s, i, j) ==
    IF j > Len(s) THEN SubSeq(s, i, Len(s))
    ELSE SubSeq(s, i, j - 1) \o UnescapeEntity(s, j, EntityAt(s, j))

UnescapeFrom(s, i) ==
    IF i > Len(s) THEN <<>> ELSE UnescapeAmp(s, i, SkipUntil(s, i, {"&"}))

\* html.UnescapeString
UnescapeString(s) == UnescapeFrom(s, 1)

EscapeChar(c) ==
    CASE c = "&" -> <<"&", "a", "m", "p", ";">>
      [] c = "'" -> <<"&", "#", "3", "9", ";">>
      [] c = "<" -> <<"&", "l", "t", ";">>
      [] c = ">" -> <<"&", "g", "t", ";">>
      [] c = "\"" -> <<"&", "#", "3", "4", ";">>
      [] OTHER -> <<c>>

\* html.EscapeString
RECURSIVE EscapeString(_)
EscapeString(s) == IF s = <<>> THEN <<>> ELSE EscapeChar(Head(s)) \o EscapeString(Tail(s))

\* the elements whose content the tokenizer reads as raw text
RawTags ==
    {<<"s", "c", "r", "i", "p", "t">>, <<"s", "t", "y", "l", "e">>, <<"t", "i", "t", "l", "e">>, <<"i", "f", "r", "a", "m", "e">>}

Attribute(key, val) == [Key |-> key, Val |-> val]

Token(type, data, attr) == [Type |-> type, Data |-> data, Attr |-> attr]

\* the attributes of a tag: t is the text of the tag, i the position reached
RECURSIVE ParseAttrs(_, _)
\* a quoted value from position i + 1 to the closing quote at e
AttrQuoted(t, key, i, e) ==
    IF e = 0 THEN <<Attribute(key, UnescapeString(SubSeq(t, i + 1, Len(t))))>>
    ELSE <<Attribute(key, UnescapeString(SubSeq(t, i + 1, e - 1)))>> \o ParseAttrs(t, e + 1)

\* an unquoted value from position i to e - 1
AttrUnquoted(t, key, i, e) ==
    <<Attribute(key, UnescapeString(SubSeq(t, i, e - 1)))>> \o ParseAttrs(t, e)

\* the value after "=": i is the position after the "=" and the whitespace
AttrValue(t, key, i) ==
    IF i > Len(t) THEN <<Attribute(key, <<>>)>>
    ELSE IF t[i] \in {"\"", "'"} THEN AttrQuoted(t, key, i, IndexFrom(t, <<t[i]>>, i + 1))
    ELSE AttrUnquoted(t, key, i, SkipUntil(t, i, Whitespace))

\* after the key: j is the position after the key and the whitespace
AttrAfterKey(t, key, j) ==
    IF j <= Len(t) /\ t[j] = "="
    THEN AttrValue(t, key, SkipWhile(t, j + 1, Whitespace))
    ELSE <<Attribute(key, <<>>)>> \o ParseAttrs(t, j)

\* the key from position i to e - 1
AttrKey(t, i, e) ==
    IF e = i THEN ParseAttrs(t, i + 1)
    ELSE AttrAfterKey(t, ToLower(SubSeq(t, i, e - 1)), SkipWhile(t, e, Whitespace))

AttrStart(t, i) ==
    IF i > Len(t) THEN <<>> ELSE AttrKey(t, i, SkipUntil(t, i, Whitespace \cup {"=", "/"}))

ParseAttrs(t, i) == AttrStart(t, SkipWhile(t, i, Whitespace \cup {"/"}))

\* the token of the tag text t (what stands between "<" and ">"); e is the
\* end of the tag name
TagToken(t, e) ==
    IF t[1] = "/" THEN Token("end", ToLower(SubSeq(t, 2, e - 1)), <<>>)
    ELSE Token(IF t[Len(t)] = "/" THEN "selfclosing" ELSE "start",
               ToLower(SubSeq(t, 1, e - 1)), ParseAttrs(t, e))

ParseTag(t) == TagToken(t, SkipUntil(t, 2, Whitespace \cup {"/"}))

\* a tag, an end tag or a comment opens at position i
TagOpensAt(s, i) ==
    /\ i < Len(s) /\ s[i] = "<"
    /\ \/ IsLetter(s[i + 1])
       \/ s[i + 1] = "/" /\ i + 1 < Len(s) /\ IsLetter(s[i + 2])
       \/ HasPrefixAt(s, i + 1, <<"!", "-", "-">>)

NextTag(s, i) ==
    IF \E j \in i..Len(s) : TagOpensAt(s, j)
    THEN CHOOSE j \in i..Len(s) : TagOpensAt(s, j) /\ \A k \in i..(j - 1) : ~TagOpensAt(s, k)
    ELSE Len(s) + 1

RECURSIVE TokensFrom(_, _)
\* the text from i to e - 1
TextThen(s, i, e) ==
    <<Token("text", UnescapeString(SubSeq(s, i, e - 1)), <<>>)>> \o TokensFrom(s, e)

\* the raw text of a script, style, title or iframe element from i to the
\* end tag at e
RawThen(s, i, e) ==
    IF e = 0 THEN IF i > Len(s) THEN <<>> ELSE <<Token("text", SubSeq(s, i, Len(s)), <<>>)>>
    ELSE IF e = i THEN TokensFrom(s, e)
    ELSE <<Token("text", SubSeq(s, i, e - 1), <<>>)>> \o TokensFrom(s, e)

\* the tag token tok, which ends at e
AfterTag(s, tok, e) ==
    IF tok.Type = "start" /\ tok.Data \in RawTags
    THEN <<tok>> \o RawThen(s, e + 1, IndexFrom(ToLower(s), <<"<", "/">> \o tok.Data, e + 1))
    ELSE <<tok>> \o TokensFrom(s, e + 1)

\* the tag that opens at i and is closed by the ">" at e; cut off at the
\* end of the input it yields no token
TagThen(s, i, e) ==
    IF e = 0 THEN <<>> ELSE AfterTag(s, ParseTag(SubSeq(s, i + 1, e - 1)), e)

\* the comment that opens at i and is closed by the "-->" at e
CommentThen(s, i, e) ==
    IF e = 0 THEN <<Token("comment", SubSeq(s, i + 4, Len(s)), <<>>)>>
    ELSE <<Token("comment", SubSeq(s, i + 4, e - 1), <<>>)>> \o TokensFrom(s, e + 3)

TokensFrom(s, i) ==
    IF i > Len(s) THEN <<>>
    ELSE IF ~TagOpensAt(s, i) THEN TextThen(s, i, NextTag(s, i + 1))
    ELSE IF HasPrefixAt(s, i + 1, <<"!", "-", "-">>)
    THEN CommentThen(s, i, IndexFrom(s, <<"-", "-", ">">>, i + 4))
    ELSE TagThen(s, i, IndexFrom(s, <<">">>, i + 1))

\* the tokens html.Tokenizer yields for s
Tokenize(s) == TokensFrom(s, 1)

RECURSIVE AttrString(_)
AttrString(attr) ==
    IF attr = <<>> THEN <<>>
    ELSE <<" ">> \o Head(attr).Key \o <<"=", "\"">> \o EscapeString(Head(attr).Val)
             \o <<"\"">> \o AttrString(Tail(attr))

\* html.Token.String
TokenString(t) ==
    CASE t.Type = "text"        -> EscapeString(t.Data)
      [] t.Type = "start"       -> <<"<">> \o t.Data \o AttrString(t.Attr) \o <<">">>
      [] t.Type = "end"         -> <<"<", "/">> \o t.Data \o AttrString(t.Attr) \o <<">">>
      [] t.Type = "selfclosing" -> <<"<">> \o t.Data \o AttrString(t.Attr) \o <<"/", ">">>
      [] OTHER                  -> <<>>

(***************************************************************************)
(* github.com/kennygrant/sanitize: HTMLAllowing.                           *)
(***************************************************************************)
\* allowedTags
allowedTags ==
    {<<"h", "1">>, <<"h", "2">>, <<"h", "3">>, <<"h", "4">>, <<"h", "5">>, <<"h", "6">>,
     <<"h", "r">>, <<"p">>, <<"b", "r">>, <<"b">>, <<"i">>, <<"s", "t", "r", "o", "n", "g">>,
     <<"e", "m">>, <<"o", "l">>, <<"u", "l">>, <<"l", "i">>, <<"a">>, <<"i", "m", "g">>,
     <<"p", "r", "e">>, <<"c", "o", "d", "e">>, <<"b", "l", "o", "c", "k", "q", "u", "o", "t", "e">>, <<"t", "r">>, <<"t", "d">>, <<"t", "h">>,
     <<"t", "a", "b", "l", "e">>}

\* allowedAttributes
allowedAttributes ==
    {<<"h", "r", "e", "f">>, <<"s", "r", "c">>, <<"s", "i", "z", "e">>, <<"w", "i", "d", "t", "h">>,
     <<"a", "l", "t">>, <<"t", "i", "t", "l", "e">>, <<"c", "o", "l", "s", "p", "a", "n">>}

\* the elements sanitize drops with their content
ignoreTags ==
    {<<"t", "i", "t", "l", "e">>, <<"s", "c", "r", "i", "p", "t">>, <<"s", "t", "y", "l", "e">>, <<"i", "f", "r", "a", "m", "e">>,
     <<"f", "r", "a", "m", "e">>, <<"f", "r", "a", "m", "e", "s", "e", "t">>, <<"n", "o", "f", "r", "a", "m", "e", "s">>, <<"n", "o", "e", "m", "b", "e", "d">>,
     <<"e", "m", "b", "e", "d">>, <<"a", "p", "p", "l", "e", "t">>, <<"o", "b", "j", "e", "c", "t">>, <<"b", "a", "s", "e">>}

StripSpace(s) == SelectSeq(s, LAMBDA c : c \notin Whitespace)

\* illegalAttr: data: or javascript: with whitespace anywhere between the letters
IllegalAttr(val) ==
    \/ ContainsStr(StripSpace(val), <<"d", "a", "t", "a", ":">>)
    \/ ContainsStr(StripSpace(val), <<"j", "a", "v", "a", "s", "c", "r", "i", "p", "t", ":">>)

\* legalHrefAttr: a leading "/" or "#", or mailto:, http:// or https:// anywhere
LegalHrefAttr(val) ==
    \/ val # <<>> /\ val[1] \in {"/", "#"}
    \/ ContainsStr(val, <<"m", "a", "i", "l", "t", "o", ":">>)
    \/ ContainsStr(val, <<"h", "t", "t", "p", ":", "/", "/">>)
    \/ ContainsStr(val, <<"h", "t", "t", "p", "s", ":", "/", "/">>)

\* cleanAttributes: one attribute, an empty value removes it
CleanAttribute(a, allowed) ==
    IF a.Key \notin allowed \/ a.Val = <<>> THEN <<>>
    ELSE IF IllegalAttr(ToLower(a.Val)) THEN <<>>
    ELSE IF a.Key = <<"h", "r", "e", "f">> /\ ~LegalHrefAttr(ToLower(a.Val)) THEN <<>>
    ELSE <<a>>

RECURSIVE cleanAttributes(_, _)
cleanAttributes(attr, allowed) ==
    IF attr = <<>> THEN <<>>
    ELSE CleanAttribute(Head(attr), allowed) \o cleanAttributes(Tail(attr), allowed)

\* the loop of HTMLAllowing over the tokens from the i-th on; ignore is the
\* element being dropped with its content
RECURSIVE SanitizeFrom(_, _, _, _, _)
SanitizeToken(toks, i, t, ignore, tags, attrs) ==
    CASE t.Type = "start" ->
           IF ignore = <<>> /\ t.Data \in tags
           THEN TokenString([t EXCEPT !.Attr = cleanAttributes(t.Attr, attrs)])
                    \o SanitizeFrom(toks, i + 1, ignore, tags, attrs)
           ELSE IF t.Data \in ignoreTags
           THEN SanitizeFrom(toks, i + 1, t.Data, tags, attrs)
           ELSE SanitizeFrom(toks, i + 1, ignore, tags, attrs)
      [] t.Type = "selfclosing" ->
           IF ignore = <<>> /\ t.Data \in tags
           THEN TokenString([t EXCEPT !.Attr = cleanAttributes(t.Attr, attrs)])
                    \o SanitizeFrom(toks, i + 1, ignore, tags, attrs)
           ELSE IF t.Data = ignore
           THEN SanitizeFrom(toks, i + 1, <<>>, tags, attrs)
           ELSE SanitizeFrom(toks, i + 1, ignore, tags, attrs)
      [] t.Type = "end" ->
           IF ignore = <<>> /\ t.Data \in tags
           THEN TokenString([t EXCEPT !.Attr = <<>>])
                    \o SanitizeFrom(toks, i + 1, ignore, tags, attrs)
           ELSE IF t.Data = ignore
           THEN SanitizeFrom(toks, i + 1, <<>>, tags, attrs)
           ELSE SanitizeFrom(toks, i + 1, ignore, tags, attrs)
      [] t.Type = "text" ->
           IF ignore = <<>>
           THEN TokenString(t) \o SanitizeFrom(toks, i + 1, ignore, tags, attrs)
           ELSE SanitizeFrom(toks, i + 1, ignore, tags, attrs)
      [] OTHER -> SanitizeFrom(toks, i + 1, ignore, tags, attrs)

SanitizeFrom(toks, i, ignore, tags, attrs) ==
    IF i > Len(toks) THEN <<>> ELSE SanitizeToken(toks, i, toks[i], ignore, tags, attrs)

(***************************************************************************)
(* crawler: the content transformer.                                       *)
(***************************************************************************)
VARIABLE tokenizerErr    \* what the sanitizer's tokenizer ends with: "EOF" at the end of the input

\* \s{2,} and \n{3,}
MinSpaces == 2

MinNewlines == 3

\* a sanitizer that lets every tag and attribute through
HTMLKeeping(s, tags, attrs) == [out |-> s, err |-> "nil"]

\* sanitize.HTMLAllowing(s, allowedTags, allowedAttributes): the output and
\* the error; a tokenizer error other than io.EOF ends it with no output
HTMLAllowing(s, tags, attrs) ==
    IF tokenizerErr # "EOF" THEN [out |-> <<>>, err |-> tokenizerErr]
    ELSE [out |-> SanitizeFrom(Tokenize(s), 1, <<>>, tags, attrs), err |-> "nil"]

\* strings.ReplaceAll(s, old, new)
RECURSIVE ReplaceAll(_, _, _)
ReplaceAt(s, old, new, i) ==
    IF i = 0 THEN s
    ELSE SubSeq(s, 1, i - 1) \o new \o ReplaceAll(SubSeq(s, i + Len(old), Len(s)), old, new)

ReplaceAll(s, old, new) == ReplaceAt(s, old, new, IndexFrom(s, old, 1))

\* regexp.ReplaceAllString for a pattern [S]{min,}: every maximal run of at
\* least min characters of S becomes repl
RECURSIVE ReplaceRuns(_, _, _, _, _)
\* the run s[i..e-1]
ReplaceRun(s, i, e, S, min, repl) ==
    IF e - i >= min THEN repl \o ReplaceRuns(s, e, S, min, repl)
    ELSE SubSeq(s, i, e - 1) \o ReplaceRuns(s, e, S, min, repl)

\* j is the position of the next character of S
ReplaceFrom(s, i, j, S, min, repl) ==
    IF j > Len(s) THEN SubSeq(s, i, Len(s))
    ELSE SubSeq(s, i, j - 1) \o ReplaceRun(s, j, SkipWhile(s, j, S), S, min, repl)

ReplaceRuns(s, i, S, min, repl) ==
    IF i > Len(s) THEN <<>> ELSE ReplaceFrom(s, i, SkipUntil(s, i, S), S, min, repl)

\* a collapse of the runs of spaces and tabs only
collapseBlanks(content) == ReplaceRuns(content, 1, {" ", "\t"}, MinSpaces, <<" ">>)

\* reCollapseSpaces: \s{2,}
collapseSpaces(content) == ReplaceRuns(content, 1, Whitespace, MinSpaces, <<" ">>)

\* removeExcessNewlines(content); reExcessNewlines: \n{3,}
removeExcessNewlines(content) ==
    ReplaceRuns(
        collapseSpaces(ReplaceAll(ReplaceAll(content, <<"\r", "\n">>, <<"\n">>),
                                  <<"\r">>, <<"\n">>)),
        1, {"\n"}, MinNewlines, <<"\n", "\n">>)

(***************************************************************************)
(* html2text: the text renderer.                                           *)
(***************************************************************************)
\* a node of the parsed document: a text node has data, an element has
\* attributes and child nodes
NoAttr == [has |-> FALSE, val |-> <<>>]

Attr(val) == [has |-> TRUE, val |-> val]

NoAttrs == [href |-> NoAttr, src |-> NoAttr, alt |-> NoAttr]

TextNode(data) == [tag |-> "#text", data |-> data, attr |-> NoAttrs, kids |-> <<>>]

Element(tag, kids) == [tag |-> tag, data |-> <<>>, attr |-> NoAttrs, kids |-> kids]

ElementWith(tag, attr, kids) == [tag |-> tag, data |-> <<>>, attr |-> attr, kids |-> kids]

\* goquery.NodeName(s)
NodeName(n) == n.tag

\* s.Contents(): the child nodes; s.Children(): the child elements
Contents(n) == n.kids

Children(n) == SelectSeq(n.kids, LAMBDA k : k.tag # "#text")

RECURSIVE Text(_)
RECURSIVE TextOf(_)
\* the texts of the nodes ns, joined
TextOf(ns) == IF ns = <<>> THEN <<>> ELSE Text(Head(ns)) \o TextOf(Tail(ns))

\* s.Text(): the data of the text nodes of the subtree, in document order
Text(n) == IF n.tag = "#text" THEN n.data ELSE TextOf(n.kids)

RECURSIVE Find(_, _)
RECURSIVE FindIn(_, _)
\* the elements named tag in the subtrees ns, in document order
FindIn(ns, tag) ==
    IF ns = <<>> THEN <<>>
    ELSE (IF Head(ns).tag = tag THEN <<Head(ns)>> ELSE <<>>)
             \o Find(Head(ns), tag) \o FindIn(Tail(ns), tag)

\* s.Find(tag): the descendants of n named tag
Find(n, tag) == FindIn(n.kids, tag)

\* strings.Repeat(s, count)
RECURSIVE Repeat(_, _)
Repeat(s, count) == IF count <= 0 THEN <<>> ELSE s \o Repeat(s, count - 1)

\* the characters of the inputs whose UTF-8 encoding has two bytes
TwoByteChars == {"U+00E9"}

Utf8Len(c) == IF c \in TwoByteChars THEN 2 ELSE 1

\* len(s) of a Go string: its number of bytes
RECURSIVE ByteLen(_)
ByteLen(s) == IF s = <<>> THEN 0 ELSE Utf8Len(Head(s)) + ByteLen(Tail(s))

\* unicode.IsSpace on the characters of the inputs
UnicodeSpace == {" ", "\t", "\n", "\f", "\r"}

\* strings.TrimSpace(s)
TrimSpace(s) ==
    IF \A i \in 1..Len(s) : s[i] \in UnicodeSpace THEN <<>>
    ELSE SubSeq(s, CHOOSE i \in 1..Len(s) :
                       s[i] \notin UnicodeSpace /\ \A k \in 1..(i - 1) : s[k] \in UnicodeSpace,
                   CHOOSE j \in 1..Len(s) :
                       s[j] \notin UnicodeSpace
                           /\ \A k \in (j + 1)..Len(s) : s[k] \in UnicodeSpace)

DigitChar(d) == SubSeq(<<"0", "1", "2", "3", "4", "5", "6", "7", "8", "9">>, d + 1, d + 1)

\* fmt's %d of a positive count
RECURSIVE Itoa(_)
Itoa(n) == IF n < 10 THEN DigitChar(n) ELSE Itoa(n \div 10) \o DigitChar(n % 10)

\* handleElement: text with the line breaks removed
CleanBreaks(text) == ReplaceAll(ReplaceAll(text, <<"\n">>, <<>>), <<"\r">>, <<>>)

\* handleAnchor(contentBuilder, s)
handleAnchor(b, n) ==
    IF n.attr.href.has /\ ~HasPrefix(n.attr.href.val, <<"#">>)
    THEN b \o Text(n) \o <<" ", "(">> \o n.attr.href.val \o <<")", " ">>
    ELSE b \o Text(n)

\* handleImage(contentBuilder, s)
handleImage(b, n) ==
    IF ~n.attr.src.has THEN b
    ELSE IF n.attr.alt.has
    THEN b \o <<"\n", "I", "m", "a", "g", "e", ":", " ">> \o n.attr.alt.val
           \o <<" ", "(">> \o n.attr.src.val \o <<")", "\n", "\n">>
    ELSE b \o <<"\n", "I", "m", "a", "g", "e", ":", " ", "(">> \o n.attr.src.val
           \o <<")", "\n", "\n">>

\* handleTableCell(contentBuilder, s)
handleTableCell(b, n) == b \o TrimSpace(Text(n))

\* handleTableRow: the cells from the i-th child on
RECURSIVE RowCells(_, _, _)
RowCells(b, cells, i) ==
    IF i > Len(cells) THEN b
    ELSE RowCells(handleTableCell(IF i = 1 THEN b ELSE b \o <<" ", "|", " ">>, cells[i]),
                  cells, i + 1)

\* handleTableRow(contentBuilder, s)
handleTableRow(b, n) == RowCells(b, Children(n), 1)

\* handleTable: the rows from the i-th on
RECURSIVE TableRows(_, _, _)
TableRows(b, rows, i) ==
    IF i > Len(rows) THEN b
    ELSE TableRows(handleTableRow(b, rows[i]) \o <<"\n">>, rows, i + 1)

\* handleTable: s.Find("tr")
tableRows(n) == Find(n, "tr")

\* handleTable(contentBuilder, s)
handleTable(b, n) == TableRows(b, tableRows(n), 1) \o <<"\n">>

\* a recursion that visits the children of no tag
DescendsNever(tagName) == FALSE

\* handleElement: the children of the tag are visited by the recursion
Descends(tagName) == tagName \notin {"pre", "table", "ul", "ol"}

\* handleList: the prefix of an item
ItemPrefix(indent, isOrdered, count) ==
    IF isOrdered THEN Repeat(<<" ", " ", " ">>, indent) \o Itoa(count) \o <<".", " ">>
    ELSE Repeat(<<" ", " ", " ">>, indent) \o <<"-", " ">>

\* a nested list that stays at the depth of its parent
NestedDepthSame(indent) == indent

\* handleList: the depth of a list that is a child of an item
NestedDepth(indent) == indent + 1

\* a recursion that goes one level deeper with every element
ChildDepthDeeper(indent) == indent + 1

\* handleElement: the depth its recursion hands to the children
ChildDepth(indent) == indent

\* handleList: the extra line break after the list
ListTrailer(b, indent) ==
    IF indent = 0 /\ ~HasSuffix(b, <<"\n", "\n">>) THEN b \o <<"\n">> ELSE b

\* handleElement: what the switch writes for a tag that has no handler of
\* its own
TagText(b, tagName, text) ==
    CASE tagName \in {"h1", "h2", "h3", "h4", "h5", "h6"} ->
             b \o <<"\n">> \o text \o <<"\n">> \o Repeat(<<"-">>, ByteLen(text)) \o <<"\n">>
      [] tagName = "p"  -> b \o text \o <<"\n", "\n">>
      [] tagName = "li" -> b
      [] tagName = "br" -> b \o <<"\n">>
      [] OTHER          -> b \o text

RECURSIVE handleElement(_, _, _)
RECURSIVE handleList(_, _, _, _)
RECURSIVE EachElement(_, _, _, _)
RECURSIVE EachInline(_, _, _, _)
RECURSIVE EachNested(_, _, _, _)
RECURSIVE ListItems(_, _, _, _, _, _)

\* handleElement on the nodes ns from the i-th on
EachElement(b, ns, i, indent) ==
    IF i > Len(ns) THEN b
    ELSE EachElement(handleElement(b, ns[i], indent), ns, i + 1, indent)

\* handleList: the nodes of an item that are not lists, from the i-th on
EachInline(b, ns, i, indent) ==
    IF i > Len(ns) THEN b
    ELSE IF NodeName(ns[i]) \notin {"ul", "ol"}
    THEN EachInline(handleElement(b, ns[i], indent), ns, i + 1, indent)
    ELSE EachInline(b, ns, i + 1, indent)

\* handleList: the lists among the child elements of an item, from the i-th on
EachNested(b, es, i, indent) ==
    IF i > Len(es) THEN b
    ELSE IF NodeName(es[i]) \in {"ul", "ol"}
    THEN EachNested(handleList(b, es[i], NestedDepth(indent), NodeName(es[i]) = "ol"),
                    es, i + 1, indent)
    ELSE EachNested(b, es, i + 1, indent)

\* handleList: the child elements of the list from the i-th on
ListItems(b, es, i, count, indent, isOrdered) ==
    IF i > Len(es) THEN b
    ELSE IF NodeName(es[i]) = "li"
    THEN ListItems(
             EachNested(
                 EachInline(b \o ItemPrefix(indent, isOrdered, count), Contents(es[i]), 1,
                            indent) \o <<"\n">>,
                 Children(es[i]), 1, indent),
             es, i + 1, IF isOrdered THEN count + 1 ELSE count, indent, isOrdered)
    ELSE ListItems(b, es, i + 1, count, indent, isOrdered)

\* handleList(contentBuilder, s, indent, isOrdered)
handleList(b, n, indent, isOrdered) ==
    ListTrailer(ListItems(b, Children(n), 1, 1, indent, isOrdered), indent)

\* handleElement: the switch on the tag name
ElementSwitch(b, n, indent) ==
    CASE NodeName(n) = "ul"    -> handleList(b, n, indent, FALSE)
      [] NodeName(n) = "ol"    -> handleList(b, n, indent, TRUE)
      [] NodeName(n) = "table" -> handleTable(b, n)
      [] NodeName(n) = "a"     -> handleAnchor(b, n)
      [] NodeName(n) = "img"   -> handleImage(b, n)
      [] NodeName(n) = "pre"   -> b \o <<"C", "O", "D", "E", ":", "\n">> \o Text(n) \o <<"\n">>
      [] OTHER                 -> TagText(b, NodeName(n), CleanBreaks(Text(n)))

\* handleElement(contentBuilder, s, indent)
handleElement(b, n, indent) ==
    IF Descends(NodeName(n))
    THEN EachElement(ElementSwitch(b, n, indent), Children(n), 1, ChildDepth(indent))
    ELSE ElementSwitch(b, n, indent)

\* Convert: handleElement on the contents of body, at indent 0
Convert(bodyContents) == EachElement(<<>>, bodyContents, 1, 0)

(***************************************************************************)
(* crawler: page extraction.                                               *)
(***************************************************************************)
\* a content: markup is the sanitized and normalized fragment, which format
\* "html" returns as it is and "md" and "txt" hand to their converter
NoContent == [format |-> "", markup |-> <<>>]

\* Page{}
EmptyPage ==
    [Title |-> "", URL |-> <<>>, Description |-> "", Tags |-> <<>>, Content |-> NoContent]

\* a switch that compares the format without regard to case
formatSwitchFold(sanitizedContent, format) ==
    IF format \in {"html", "md", "txt", "HTML", "Md", "MD", "Txt", "TXT"}
    THEN [err |-> "nil", content |-> [format |-> format, markup |-> sanitizedContent]]
    ELSE [err |-> "unsupported format", content |-> NoContent]

\* extractAndTransformContentFromText: the switch on format
formatSwitch(sanitizedContent, format) ==
    IF format \in {"html", "md", "txt"}
    THEN [err |-> "nil", content |-> [format |-> format, markup |-> sanitizedContent]]
    ELSE [err |-> "unsupported format", content |-> NoContent]

\* a transformer whose format branches take the raw fragment
transformRawFragment(content, format) == formatSwitch(content, format)

\* extractAndTransformContentFromText(content, format); the error of
\* HTMLAllowing is assigned to _
extractAndTransformContentFromText(content, format) ==
    formatSwitch(
        removeExcessNewlines(
            HTMLAllowing(UnescapeString(content), allowedTags, allowedAttributes).out),
        format)

\* html.Render of one node of the document
RenderNode(e) ==
    CASE e.tag = "#text"  -> EscapeString(e.val)
      [] e.tag = "a"      ->
           <<"<", "a">>
               \o (IF e.has THEN <<" ", "h", "r", "e", "f", "=", "\"">> \o EscapeString(e.val)
                                     \o <<"\"">>
                   ELSE <<>>)
               \o <<">", "<", "/", "a", ">">>
      [] e.tag = "img"    ->
           <<"<", "i", "m", "g">>
               \o (IF e.has THEN <<" ", "s", "r", "c", "=", "\"">> \o EscapeString(e.val)
                                     \o <<"\"">>
                   ELSE <<>>)
               \o <<"/", ">">>
      [] e.tag = "script" ->
           <<"<", "s", "c", "r", "i", "p", "t", ">">> \o e.val
               \o <<"<", "/", "s", "c", "r", "i", "p", "t", ">">>

\* selection.Html(): the serialized nodes inside the first matched element
RECURSIVE Html(_)
Html(nodes) == IF nodes = <<>> THEN <<>> ELSE RenderNode(Head(nodes)) \o Html(Tail(nodes))

\* an extraction that takes the inner markup of every matched element
extractAllMatches(doc, cssSelector, format) ==
    IF doc.find[cssSelector] = 0
    THEN [err |-> "selector not found", content |-> NoContent]
    ELSE extractAndTransformContentFromText(
             Html(SelectSeq(doc.elems, LAMBDA e : e.sel # {})), format)

\* extractAndTransformContent(doc, cssSelector, format); a node's sel is the
\* set of the matched elements it lies in, numbered in document order
extractAndTransformContent(doc, cssSelector, format) ==
    IF doc.find[cssSelector] = 0
    THEN [err |-> "selector not found", content |-> NoContent]
    ELSE extractAndTransformContentFromText(
             Html(SelectSeq(doc.elems, LAMBDA e : 1 \in e.sel)), format)

\* http.Client.Get fails before any response for a URL that does not parse,
\* is not http(s) or has no host
Fetchable(url) ==
    LET u == Parse(url)
    IN  u.ok /\ u.url.Scheme \in {<<"h", "t", "t", "p">>, <<"h", "t", "t", "p", "s">>}
             /\ u.url.Host # <<>>

\* extractPage: the Page assembled from the document and the content c
assemblePage(pageURL, doc, c) ==
    IF c.err # "nil" THEN [err |-> c.err, page |-> EmptyPage]
    ELSE [err |-> "nil",
          page |-> [Title |-> doc.title, URL |-> pageURL,
                    Description |-> doc.description,
                    Tags |-> IF doc.tags # <<>> THEN Split(doc.tags, ",") ELSE <<>>,
                    Content |-> c.content]]

\* extractPage: the rewriting of the links; host is getDomainFromURL(pageURL)
rewriteLinks(doc, host) == IF host.ok THEN fixRelativeUrls(doc, host.domain) ELSE doc

\* a fetch that also fails on a response whose status is not 200
GetFailedOrStatus(resp) == resp.kind = "geterr" \/ resp.status # 200

\* extractPage: err != nil after Client.Get(pageURL)
GetFailed(resp) == resp.kind = "geterr"

\* extractPage(pageURL, cssSelector, format), given what Client.Get and the
\* read of the body yield
extractPage(pageURL, cssSelector, format, resp) ==
    IF GetFailed(resp) THEN [err |-> "error visiting URL", page |-> EmptyPage]
    ELSE IF resp.kind = "readerr" THEN [err |-> "error parsing HTML", page |-> EmptyPage]
    ELSE assemblePage(pageURL, resp.doc,
             extractAndTransformContent(
                 rewriteLinks(resp.doc, getDomainFromURL(pageURL)), cssSelector, format))

(***************************************************************************)
(* Inputs.                                                                 *)
(***************************************************************************)
\* https://x.test/blog/post-1
UrlBlogPost == <<"h", "t", "t", "p", "s", ":", "/", "/", "x", ".", "t", "e", "s", "t", "/", "b", "l", "o", "g", "/", "p", "o", "s", "t", "-", "1">>
\* https://x.test/about
UrlAbout == <<"h", "t", "t", "p", "s", ":", "/", "/", "x", ".", "t", "e", "s", "t", "/", "a", "b", "o", "u", "t">>
\* https://y.test/blog/post-1?q=about
UrlOtherHost == <<"h", "t", "t", "p", "s", ":", "/", "/", "y", ".", "t", "e", "s", "t", "/", "b", "l", "o", "g", "/", "p", "o", "s", "t", "-", "1", "?", "q", "=", "a", "b", "o", "u", "t">>
\* https://x.test/about?p=blog/
UrlAboutQuery == <<"h", "t", "t", "p", "s", ":", "/", "/", "x", ".", "t", "e", "s", "t", "/", "a", "b", "o", "u", "t", "?", "p", "=", "b", "l", "o", "g", "/">>
\* https://blog/about
UrlHostBlog == <<"h", "t", "t", "p", "s", ":", "/", "/", "b", "l", "o", "g", "/", "a", "b", "o", "u", "t">>
\* https://x.test//blog/x
UrlDoubleSlash == <<"h", "t", "t", "p", "s", ":", "/", "/", "x", ".", "t", "e", "s", "t", "/", "/", "b", "l", "o", "g", "/", "x">>
\* https://x.test/blog/%zz
UrlBadEscape == <<"h", "t", "t", "p", "s", ":", "/", "/", "x", ".", "t", "e", "s", "t", "/", "b", "l", "o", "g", "/", "%", "z", "z">>
\* https://x test/blog/post-1
UrlSpaceHost == <<"h", "t", "t", "p", "s", ":", "/", "/", "x", " ", "t", "e", "s", "t", "/", "b", "l", "o", "g", "/", "p", "o", "s", "t", "-", "1">>
\* https://x.test:8a/blog/post-1
UrlBadPort == <<"h", "t", "t", "p", "s", ":", "/", "/", "x", ".", "t", "e", "s", "t", ":", "8", "a", "/", "b", "l", "o", "g", "/", "p", "o", "s", "t", "-", "1">>
\* x.test/blog/a
UrlNoScheme == <<"x", ".", "t", "e", "s", "t", "/", "b", "l", "o", "g", "/", "a">>
\* https://x.test/blog%2Fa
UrlEscapedSlash == <<"h", "t", "t", "p", "s", ":", "/", "/", "x", ".", "t", "e", "s", "t", "/", "b", "l", "o", "g", "%", "2", "F", "a">>
\* https://x.test
UrlNoPath == <<"h", "t", "t", "p", "s", ":", "/", "/", "x", ".", "t", "e", "s", "t">>
\* https://x.test/about#blog/
UrlAboutFragment == <<"h", "t", "t", "p", "s", ":", "/", "/", "x", ".", "t", "e", "s", "t", "/", "a", "b", "o", "u", "t", "#", "b", "l", "o", "g", "/">>
\* \nhttps://x.test/blog/post-1
UrlLeadingNewline == <<"\n", "h", "t", "t", "p", "s", ":", "/", "/", "x", ".", "t", "e", "s", "t", "/", "b", "l", "o", "g", "/", "p", "o", "s", "t", "-", "1">>
\* /blog/a
UrlPathOnly == <<"/", "b", "l", "o", "g", "/", "a">>
\* https://x.test/*x
UrlStar == <<"h", "t", "t", "p", "s", ":", "/", "/", "x", ".", "t", "e", "s", "t", "/", "*", "x">>

\* the empty string
EmptyString == <<>>

FilterURLs ==
    {UrlBlogPost,
     UrlAbout,
     UrlOtherHost,
     UrlAboutQuery,
     UrlHostBlog,
     UrlDoubleSlash,
     UrlBadEscape,
     UrlSpaceHost,
     UrlBadPort,
     UrlNoScheme,
     UrlEscapedSlash,
     UrlNoPath,
     UrlAboutFragment,
     UrlLeadingNewline,
     UrlPathOnly,
     UrlStar,
     EmptyString}

\* *
FilterStar == <<"*">>
\* blog/
FilterBlog == <<"b", "l", "o", "g", "/">>
\* blog/*
FilterBlogStar == <<"b", "l", "o", "g", "/", "*">>
\* blog/**
FilterBlogStarStar == <<"b", "l", "o", "g", "/", "*", "*">>
\* /blog
FilterSlashBlog == <<"/", "b", "l", "o", "g">>
\* about
FilterAbout == <<"a", "b", "o", "u", "t">>
\* **
FilterStarStar == <<"*", "*">>
\* blog
FilterBlogWord == <<"b", "l", "o", "g">>

Filters ==
    {EmptyString, FilterStar, FilterBlog, FilterBlogStar, FilterBlogStarStar, FilterSlashBlog, FilterAbout, FilterStarStar, FilterBlogWord}

\* https://x.test/feed.xml
SourceHttps == <<"h", "t", "t", "p", "s", ":", "/", "/", "x", ".", "t", "e", "s", "t", "/", "f", "e", "e", "d", ".", "x", "m", "l">>
\* http://x.test/feed.xml
SourceHttp == <<"h", "t", "t", "p", ":", "/", "/", "x", ".", "t", "e", "s", "t", "/", "f", "e", "e", "d", ".", "x", "m", "l">>
\* feed.xml
SourceFile == <<"f", "e", "e", "d", ".", "x", "m", "l">>
\* https.xml
SourceHttpFile == <<"h", "t", "t", "p", "s", ".", "x", "m", "l">>

FeedSources == {SourceHttps, SourceHttp, SourceFile, SourceHttpFile}

\* /a/b
RefAbsPath == <<"/", "a", "/", "b">>
\* #top
RefAnchor == <<"#", "t", "o", "p">>
\* i.png
RefImage == <<"i", ".", "p", "n", "g">>
\* https://o.test/x
RefAbsolute == <<"h", "t", "t", "p", "s", ":", "/", "/", "o", ".", "t", "e", "s", "t", "/", "x">>
\* //cdn.test/i.png
RefProtocolRelative == <<"/", "/", "c", "d", "n", ".", "t", "e", "s", "t", "/", "i", ".", "p", "n", "g">>
\* ../up/./i.png
RefDotDot == <<".", ".", "/", "u", "p", "/", ".", "/", "i", ".", "p", "n", "g">>
\* ?q=1
RefQuery == <<"?", "q", "=", "1">>
\* mailto:x
RefMailto == <<"m", "a", "i", "l", "t", "o", ":", "x">>
\* HTTP://o.test/x
RefUpperScheme == <<"H", "T", "T", "P", ":", "/", "/", "o", ".", "t", "e", "s", "t", "/", "x">>
\* :x
RefMissingScheme == <<":", "x">>
\* a#b
RefPathFragment == <<"a", "#", "b">>

LinkValues ==
    {EmptyString, RefAbsPath,
     RefAnchor,
     RefImage,
     RefAbsolute,
     RefProtocolRelative,
     RefDotDot,
     RefQuery,
     RefMailto,
     RefUpperScheme,
     RefMissingScheme,
     RefPathFragment}

\* <script>evil()</script><p>hi</p>
FragScript ==
    <<"<", "s", "c", "r", "i", "p", "t", ">", "e", "v", "i", "l", "(", ")", "<", "/", "s",
    "c", "r", "i", "p", "t", ">", "<", "p", ">", "h", "i", "<", "/", "p", ">">>
\* &lt;script&gt;evil()&lt;/script&gt;<p>hi</p>
FragEscapedScript ==
    <<"&", "l", "t", ";", "s", "c", "r", "i", "p", "t", "&", "g", "t", ";", "e", "v", "i",
    "l", "(", ")", "&", "l", "t", ";", "/", "s", "c", "r", "i", "p", "t", "&", "g", "t",
    ";", "<", "p", ">", "h", "i", "<", "/", "p", ">">>
\* &amp;lt;b&amp;gt;x
FragDoubleEscaped ==
    <<"&", "a", "m", "p", ";", "l", "t", ";", "b", "&", "a", "m", "p", ";", "g", "t", ";",
    "x">>
\* <a href="/a/b" onclick="x()">l</a>
FragAttrs ==
    <<"<", "a", " ", "h", "r", "e", "f", "=", "\"", "/", "a", "/", "b", "\"", " ", "o", "n",
    "c", "l", "i", "c", "k", "=", "\"", "x", "(", ")", "\"", ">", "l", "<", "/", "a", ">">>
\* <SCRIPT>a</SCRIPT><P CLASS="x">b</P>
FragUpper ==
    <<"<", "S", "C", "R", "I", "P", "T", ">", "a", "<", "/", "S", "C", "R", "I", "P", "T",
    ">", "<", "P", " ", "C", "L", "A", "S", "S", "=", "\"", "x", "\"", ">", "b", "<", "/",
    "P", ">">>
\* <div><span>t</span></div><!-- c --><br/>
FragDiv ==
    <<"<", "d", "i", "v", ">", "<", "s", "p", "a", "n", ">", "t", "<", "/", "s", "p", "a",
    "n", ">", "<", "/", "d", "i", "v", ">", "<", "!", "-", "-", " ", "c", " ", "-", "-",
    ">", "<", "b", "r", "/", ">">>
\* a <span></span> b
FragSpanGap == <<"a", " ", "<", "s", "p", "a", "n", ">", "<", "/", "s", "p", "a", "n", ">", " ", "b">>
\* <p>a  b \n\n\n c\r\nd\re</p>
FragSpaces ==
    <<"<", "p", ">", "a", " ", " ", "b", " ", "\n", "\n", "\n", " ", "c", "\r", "\n", "d",
    "\r", "e", "<", "/", "p", ">">>
\* a\n\n\nb
FragNewlines == <<"a", "\n", "\n", "\n", "b">>
\* a\t\tb \n c
FragTabs == <<"a", "\t", "\t", "b", " ", "\n", " ", "c">>
\* a b\nc
FragSingle == <<"a", " ", "b", "\n", "c">>
\* a\r\n\r\nb
FragCRLF == <<"a", "\r", "\n", "\r", "\n", "b">>
\* <a href="javascript:x">m</a><img src="data:x" alt="i"/>
FragJavascript ==
    <<"<", "a", " ", "h", "r", "e", "f", "=", "\"", "j", "a", "v", "a", "s", "c", "r", "i",
    "p", "t", ":", "x", "\"", ">", "m", "<", "/", "a", ">", "<", "i", "m", "g", " ", "s",
    "r", "c", "=", "\"", "d", "a", "t", "a", ":", "x", "\"", " ", "a", "l", "t", "=", "\"",
    "i", "\"", "/", ">">>
\* <style>a<p>b</style>c
FragStyle ==
    <<"<", "s", "t", "y", "l", "e", ">", "a", "<", "p", ">", "b", "<", "/", "s", "t", "y",
    "l", "e", ">", "c">>

Fragments ==
    {EmptyString, FragScript, FragEscapedScript, FragDoubleEscaped, FragAttrs,
     FragUpper, FragDiv, FragSpanGap, FragSpaces,
     FragNewlines, FragTabs, FragSingle, FragCRLF,
     FragJavascript, FragStyle}

\* format values: the three formats, other spellings and other words
TransformFormats == {"html", "md", "txt", "HTML", "Txt", "pdf", ""}

\* what the tokenizer of the sanitizer can end with
TokenizerErrs == {"EOF", "unexpected error"}

\* a,b
TagsAB == <<"a", ",", "b">>
\* https://x.test
OriginX == <<"h", "t", "t", "p", "s", ":", "/", "/", "x", ".", "t", "e", "s", "t">>

\* feed length and link count of the inputs
MaxEntries == 2

MaxLinks == 2

SeqsUpTo(S, n) == UNION {[1..k -> S] : k \in 0..n}

\* http.StatusOK
StatusOK == 200

Statuses == {200, 201, 404, 500}

\* xml.Name of a root element
XMLName(space, local) == [Space |-> space, Local |-> local]

Roots ==
    {XMLName("", "urlset"), XMLName("http://www.sitemaps.org/schemas/sitemap/0.9", "urlset"),
     XMLName("", "rss"), XMLName("", "RSS"), XMLName("", "feed"),
     XMLName("", "sitemapindex"), XMLName("", "html")}

\* a feed document as a reader yields it: kind "ok" is well-formed XML,
\* "truncated" is cut off before its closing tags (malformed XML) and
\* "ioerr" fails while it is read; entries are the url/loc (sitemap) or
\* channel/item (RSS) elements present in the text, in document order
Body(kind, root, entries) == [kind |-> kind, root |-> root, entries |-> entries]

NoBody == Body("none", XMLName("", ""), <<>>)

BodyKinds == {"ok", "truncated", "ioerr"}

\* RSSItem{Link, Description}; a sitemap loc is an entry with its Link only
FeedEntry(link, description) == [Link |-> link, Description |-> description]

Entries ==
    {FeedEntry(UrlBlogPost, "D1"), FeedEntry(UrlAbout, ""), FeedEntry(EmptyString, "D3")}

DetectBodies == {Body(k, r, <<>>) : k \in BodyKinds, r \in Roots}

CrawlBodies(root) == {Body(k, root, f) : k \in BodyKinds, f \in SeqsUpTo(Entries, MaxEntries)}

\* what Client.Get(feedSource) yields
FeedResponses(bodies) ==
    {[kind |-> "geterr", status |-> 0, body |-> NoBody]}
        \cup {[kind |-> "resp", status |-> st, body |-> b] : st \in Statuses, b \in bodies}

\* what os.Open(feedSource) yields
FileOutcomes(bodies) ==
    {[kind |-> "openerr", status |-> 0, body |-> NoBody]}
        \cup {[kind |-> "file", status |-> 0, body |-> b] : b \in bodies}

CssSelectors == {"article"}

Formats == {"txt", "HTML"}

CrawlFilters == {FilterStar, FilterBlog}

CrawlSources == {SourceHttps, SourceFile}

\* the pages of the site: a page with the selected element, meta data and
\* links, and a page without the selected element
DocFull ==
    [title |-> "T1", description |-> "PD", tags |-> TagsAB,
     elems |-> <<LinkElem("a", TRUE, RefAbsPath, {1}), LinkElem("img", TRUE, RefImage, {})>>,
     find |-> [article |-> 1]]

DocMiss ==
    [title |-> "T2", description |-> "", tags |-> EmptyString, elems |-> <<>>,
     find |-> [article |-> 0]]

NoDoc ==
    [title |-> "", description |-> "", tags |-> EmptyString, elems |-> <<>>,
     find |-> [article |-> 0]]

PageDocs == {DocFull, DocMiss}

\* a response to the request for a page: the outcome of Client.Get, the
\* status of the response (0 when there is none) and the document in its body
PageResponse(kind, doc) ==
    [kind |-> kind, status |-> IF kind \in {"doc", "readerr"} THEN StatusOK ELSE 0,
     doc |-> doc]

\* the response with another status
WithStatus(resp, st) == [resp EXCEPT !.status = st]

\* the statuses of the page responses
PageStatuses == {StatusOK, 404}

NoResponse == PageResponse("none", NoDoc)

\* what Client.Get(pageURL) and the read of its body yield
PageResponses(url) ==
    {PageResponse("geterr", NoDoc)}
        \cup (IF Fetchable(url)
              THEN {PageResponse("readerr", NoDoc)}
                       \cup {WithStatus(PageResponse("doc", d), st) :
                                 d \in PageDocs, st \in PageStatuses}
              ELSE {})

LinkElems ==
    {LinkElem(t, TRUE, v, {1}) : t \in {"a", "img"}, v \in LinkValues}
        \cup {LinkElem(t, FALSE, EmptyString, {1}) : t \in {"a", "img"}}

LinkDocs ==
    {[title |-> "T1", description |-> "", tags |-> EmptyString, elems |-> es,
      find |-> [article |-> 1]] : es \in SeqsUpTo(LinkElems, MaxLinks)}

LinkPageURLs == {UrlBlogPost, UrlOtherHost}

\* the nodes of the pages given to extractPage: texts inside the first
\* match, inside the second, inside both (the second match nested in the
\* first) and outside every match, a link and a script inside the first
TextOne == <<"o", "n", "e">>

TextTwo == <<"t", "w", "o">>

TextIn == <<"i", "n">>

TextOut == <<"o", "u", "t">>

ExtractNodes ==
    {LinkElem("#text", FALSE, TextOne, {1}), LinkElem("#text", FALSE, TextTwo, {2}),
     LinkElem("#text", FALSE, TextIn, {1, 2}), LinkElem("#text", FALSE, TextOut, {}),
     LinkElem("a", TRUE, RefAbsPath, {1}), LinkElem("script", FALSE, TextOut, {1})}

MaxNodes == 2

MaxMatches == 2

\* nodes es in document order under n matched elements
DocumentOrder(es, n) ==
    /\ \A i \in 1..Len(es) : es[i].sel \subseteq 1..n
    /\ \A i, j \in 1..Len(es) : i < j => ~(es[i].sel = {2} /\ es[j].sel = {1})
    /\ ~(\E i, j \in 1..Len(es) : es[i].sel = {2} /\ es[j].sel = {1, 2})

ExtractDocs ==
    {[title |-> "T1", description |-> "PD", tags |-> TagsAB, elems |-> es,
      find |-> [article |-> n]] :
        es \in SeqsUpTo(ExtractNodes, MaxNodes), n \in 0..MaxMatches}

ExtractResponses ==
    {PageResponse("geterr", NoDoc), PageResponse("readerr", NoDoc)}
        \cup {PageResponse("doc", d) :
                 d \in {x \in ExtractDocs : DocumentOrder(x.elems, x.find.article)}}

ExtractFormats == {"html", "txt", "pdf"}

\* values of --type, of --format and of the answer to the content-format
\* prompt (the empty answer keeps the flag's value)
OutputTypes == {"jsonl", "md", "pdf", "xml", "JSON"}

FormatFlags == {"txt", "md"}

FormatAnswers == {"", "html", "HTML", "docx"}

\* what the user types when asked to proceed (the empty answer means "y")
Confirmations == {"", "n"}

\* what os.Create and the write of the content do
WriteOutcomes == {"ok", "createerr", "writeerr"}

MainSources == {SourceHttps, SourceFile}

MainFilters == {FilterBlog}

\* the nodes of the documents given to the text renderer, as the HTML parser
\* builds them
\* <h1>Title</h1>
NodeH1Title ==
    Element("h1", <<TextNode(<<"T", "i", "t", "l", "e">>)>>)

\* <h2>Caf&eacute;</h2>: a heading with a two-byte character
NodeH2Cafe ==
    Element("h2", <<TextNode(<<"C", "a", "f", "U+00E9">>)>>)

\* a heading with a line break in its text
NodeH3Break ==
    Element("h3", <<TextNode(<<"A", "\n", "B">>)>>)

\* <h1><b>Hi</b></h1>
NodeH1Bold ==
    Element("h1", <<Element("b", <<TextNode(<<"H", "i">>)>>)>>)

\* the text x
NodeTextX ==
    TextNode(<<"x">>)

\* <ul><li>a</li><li>b</li></ul>
NodeUlAB ==
    Element("ul", <<Element("li", <<TextNode(<<"a">>)>>), Element("li", <<TextNode(<<"b">>)>>)>>)

\* <ol><li>a</li><div>z</div><li>b</li></ol>
NodeOlMixed ==
    Element("ol", <<Element("li", <<TextNode(<<"a">>)>>), Element("div", <<TextNode(<<"z">>)>>), Element("li", <<TextNode(<<"b">>)>>)>>)

\* <ul><li>a<ol><li>b</li><li>c</li></ol></li><li>d</li></ul>
NodeUlNested ==
    Element("ul", <<Element("li", <<TextNode(<<"a">>), Element("ol", <<Element("li", <<TextNode(<<"b">>)>>), Element("li", <<TextNode(<<"c">>)>>)>>)>>), Element("li", <<TextNode(<<"d">>)>>)>>)

\* <ul><li><blockquote>q<ul><li>n</li></ul></blockquote></li></ul>
NodeUlQuote ==
    Element("ul", <<Element("li", <<Element("blockquote", <<TextNode(<<"q">>), Element("ul", <<Element("li", <<TextNode(<<"n">>)>>)>>)>>)>>)>>)

\* <ul><li>a<ul><li><div><ol><li>n</li></ol></div></li></ul></li></ul>
NodeUlDeepQuote ==
    Element("ul", <<Element("li", <<TextNode(<<"a">>), Element("ul", <<Element("li", <<Element("div", <<Element("ol", <<Element("li", <<TextNode(<<"n">>)>>)>>)>>)>>)>>)>>)>>)

\* <table><tr><td>A</td><td>B</td></tr></table>, with the tbody the parser adds
NodeTableAB ==
    Element("table", <<Element("tbody", <<Element("tr", <<Element("td", <<TextNode(<<"A">>)>>), Element("td", <<TextNode(<<"B">>)>>)>>)>>)>>)

\* a table with a table in its only cell
NodeTableNested ==
    Element("table", <<Element("tbody", <<Element("tr", <<Element("td", <<TextNode(<<"X">>), Element("table", <<Element("tbody", <<Element("tr", <<Element("td", <<TextNode(<<"N">>)>>)>>)>>)>>)>>)>>)>>)>>)

\* a table of two rows, with spaces around and a line break inside a cell
NodeTableRows ==
    Element("table", <<Element("tbody", <<Element("tr", <<Element("th", <<TextNode(<<" ", "H", " ">>)>>)>>), Element("tr", <<Element("td", <<TextNode(<<"C", "\n", "D">>)>>)>>)>>)>>)

\* <pre> with two lines
NodePre ==
    Element("pre", <<TextNode(<<"l", "1", "\n", "l", "2">>)>>)

\* a link whose text has a line break
NodeAnchorBreak ==
    ElementWith("a", [href |-> Attr(<<"/", "p">>), src |-> NoAttr, alt |-> NoAttr], <<TextNode(<<"g", "o", "\n", "t", "o">>)>>)

\* a link to a fragment
NodeAnchorHash ==
    ElementWith("a", [href |-> Attr(<<"#", "t">>), src |-> NoAttr, alt |-> NoAttr], <<TextNode(<<"t", "o", "p">>)>>)

\* an image with alt and src
NodeImgAlt ==
    ElementWith("img", [href |-> NoAttr, src |-> Attr(<<"/", "i", ".", "p", "n", "g">>), alt |-> Attr(<<"p", "i", "c">>)], <<>>)

\* an image without src
NodeImgBare ==
    ElementWith("img", [href |-> NoAttr, src |-> NoAttr, alt |-> Attr(<<"p", "i", "c">>)], <<>>)

\* <div><span><b>t</b></span></div>
NodeDivSpanB ==
    Element("div", <<Element("span", <<Element("b", <<TextNode(<<"t">>)>>)>>)>>)

\* <div><span>t</span></div>
NodeDivSpan ==
    Element("div", <<Element("span", <<TextNode(<<"t">>)>>)>>)

\* <span>t</span>
NodeSpan ==
    Element("span", <<TextNode(<<"t">>)>>)

\* <pre><b>c</b></pre>
NodePreBold ==
    Element("pre", <<Element("b", <<TextNode(<<"c">>)>>)>>)

\* a paragraph with a line break in its text
NodePara ==
    Element("p", <<TextNode(<<"a", "\r", "\n", "b">>)>>)

\* <br>
NodeBr ==
    Element("br", <<>>)

TextNodes ==
    {NodeH1Title, NodeH2Cafe, NodeH3Break, NodeH1Bold, NodeTextX, NodeUlAB,
     NodeOlMixed, NodeUlNested, NodeUlQuote, NodeUlDeepQuote, NodeTableAB,
     NodeTableNested, NodeTableRows, NodePre, NodeAnchorBreak, NodeAnchorHash,
     NodeImgAlt, NodeImgBare, NodeDivSpanB, NodeDivSpan, NodeSpan, NodePreBold,
     NodePara, NodeBr}

MaxTop == 2

\* the contents of the body of a parsed document
TextDocs == SeqsUpTo(TextNodes, MaxTop)

(***************************************************************************)
(* State.                                                                  *)
(***************************************************************************)
VARIABLES
    call,        \* the function being executed
    pc,          \* its control point
    feedSource, cssSelector, format, filter,   \* arguments
    reader,      \* the opened feed body
    status,      \* res.StatusCode of the feed response
    requests,    \* the Client.Get calls made so far, in the order of their return
    decodes,     \* number of XML decodings started by DetectFeedType
    feedType,    \* the type DetectFeedType returns
    err,         \* the error returned: "none" before the return, "nil" for no error
    items,       \* urls / rss.Items
    idx,         \* number of feed entries the loop has consumed
    bar,         \* the progress bar's count
    pages,       \* the accumulating output sequence
    outcome,     \* per consumed entry: what happened to it
    result,      \* the pages returned
    pageURL,     \* argument of matchesFilter / of the page being rewritten
    matched,     \* the value matchesFilter returns
    dom0,        \* the page DOM before fixRelativeUrls
    dom,         \* the page DOM, mutated in place
    htmlContent, \* argument of extractAndTransformContentFromText
    decodedContent,   \* its local decodedContent
    sanitizedContent, \* its local sanitizedContent
    transformed, \* the content and the error it returns
    inflight,    \* the reads that were started and have not returned
    timeout,     \* crawler.Client.Timeout, in seconds; 0 is no timeout
    caller,      \* "main" when executeCrawlAndExport runs the calls
    formattedContent,   \* what FormatPages returned
    file,        \* the output file
    writes,      \* number of calls of WriteToFile
    outputFiletype,   \* main's outputFiletype
    chosenFormat,     \* the content format the user chose, by flag or prompt
    asked,       \* whether the user was asked for the content format
    textDoc,     \* html2text.Convert: the contents of the parsed body
    textIdx,     \* the number of them handleElement has been called for
    contentBuilder    \* its contentBuilder

args == <<feedSource, cssSelector, format, filter>>

detectVars == <<decodes, feedType>>

loopVars == <<items, idx, bar, pages, outcome, result>>

pureVars == <<pageURL, matched, dom0, dom>>

transformVars == <<htmlContent, decodedContent, sanitizedContent, transformed>>

mainVars == <<caller, outputFiletype, chosenFormat, asked, formattedContent, file, writes>>

renderVars == <<textDoc, textIdx, contentBuilder>>

\* what no action of a crawl changes
auxVars == <<tokenizerErr, transformVars, timeout, mainVars, renderVars>>

vars ==
    <<call, pc, feedSource, cssSelector, format, filter, reader, status, requests,
      decodes, feedType, err, items, idx, bar, pages, outcome, result, pageURL,
      matched, dom0, dom, htmlContent, decodedContent, sanitizedContent, transformed,
      tokenizerErr, inflight, timeout, caller, outputFiletype, chosenFormat, asked,
      formattedContent, file, writes,
      textDoc, textIdx, contentBuilder>>

IOInit ==
    /\ reader = NoBody /\ status = 0 /\ requests = <<>> /\ err = "none"
    /\ inflight = {}

\* http.Client{Timeout: 10 * time.Second}
DefaultTimeout == 10

\* values of --timeout: none, and the default
Timeouts == {0, DefaultTimeout}

\* a call on its own, with the client as the package creates it
\* nothing is formatted and there is no output file
NoFormatted == [layout |-> "", pages |-> <<>>]

NoFile == [state |-> "none", type |-> "", content |-> NoFormatted]

ExportIdle == formattedContent = NoFormatted /\ file = NoFile /\ writes = 0

StandAlone ==
    /\ timeout = DefaultTimeout
    /\ caller = "none" /\ outputFiletype = "" /\ chosenFormat = "" /\ asked = FALSE
    /\ ExportIdle

DetectIdle == decodes = 0 /\ feedType = ""

LoopIdle ==
    /\ items = <<>> /\ idx = 0 /\ bar = 0 /\ pages = <<>> /\ outcome = <<>>
    /\ result = <<>>

PureIdle == pageURL = EmptyString /\ matched = FALSE /\ dom0 = NoDoc /\ dom = NoDoc

ArgsIdle == cssSelector = "" /\ format = "" /\ filter = EmptyString

NoTransform == [err |-> "none", content |-> NoContent]

TransformLocalsIdle == decodedContent = EmptyString /\ sanitizedContent = EmptyString

RenderIdle == textDoc = <<>> /\ textIdx = 0 /\ contentBuilder = <<>>

TransformIdle ==
    /\ htmlContent = EmptyString /\ TransformLocalsIdle /\ transformed = NoTransform
    /\ RenderIdle

\* the sanitizer's tokenizer reads its input to the end
TokenizerEOF == tokenizerErr = "EOF"

\* strings.HasPrefix(feedSource, "http://") || strings.HasPrefix(feedSource, "https://")
IsHTTPSource(source) ==
    \/ HasPrefix(source, <<"h", "t", "t", "p", ":", "/", "/">>)
    \/ HasPrefix(source, <<"h", "t", "t", "p", "s", ":", "/", "/">>)

Request(url, entry) == [url |-> url, entry |-> entry]

(***************************************************************************)
(* feed.DetectFeedType                                                     *)
(***************************************************************************)
\* a status check that lets every response through
StatusRejectedNever(st) == FALSE

\* res.StatusCode != http.StatusOK
StatusRejected(st) == st # StatusOK

\* a switch that compares the root name without regard to case
DetectSwitchFold(root) ==
    CASE root.Local \in {"urlset", "URLSET"} -> [type |-> "sitemap", err |-> "nil"]
      [] root.Local \in {"rss", "RSS"}       -> [type |-> "rss", err |-> "nil"]
      [] OTHER                               -> [type |-> "", err |-> "unknown feed type"]

\* the switch on root.XMLName.Local
DetectSwitch(root) ==
    CASE root.Local = "urlset" -> [type |-> "sitemap", err |-> "nil"]
      [] root.Local = "rss"    -> [type |-> "rss", err |-> "nil"]
      [] OTHER                 -> [type |-> "", err |-> "unknown feed type"]

\* xml.Decoder.Decode(&root): fails on a read error and on malformed XML
DetectDecodeResult(body) ==
    IF body.kind # "ok" THEN [type |-> "", err |-> "error decoding XML"]
    ELSE DetectSwitch(body.root)

InitDetect ==
    /\ call = "DetectFeedType" /\ pc = "open"
    /\ feedSource \in FeedSources
    /\ ArgsIdle /\ IOInit /\ StandAlone /\ TransformIdle /\ TokenizerEOF /\ DetectIdle /\ LoopIdle /\ PureIdle

\* Client.Get(feedSource) or os.Open(feedSource) is called and blocks: the
\* read of the feed is in flight (entry 0 is the feed itself)
FeedIssue ==
    /\ call \in {"DetectFeedType", "CrawlSitemap", "CrawlRSS"} /\ pc = "open"
    /\ inflight = {}
    /\ inflight' = {Request(feedSource, 0)}
    /\ UNCHANGED <<auxVars, call, pc, args, reader, status, requests, err, detectVars,
                   loopVars, pureVars>>

\* the opening of the source returns, with the check of the HTTP status
DetectOpen ==
    /\ call = "DetectFeedType" /\ pc = "open"
    /\ inflight = {Request(feedSource, 0)} /\ inflight' = {}
    /\ IF IsHTTPSource(feedSource)
       THEN /\ requests' = Append(requests, Request(feedSource, 0))
            /\ \E r \in FeedResponses(DetectBodies) :
                 IF r.kind = "geterr"
                 THEN /\ err' = "error fetching URL" /\ pc' = "done"
                      /\ UNCHANGED <<reader, status>>
                 ELSE IF StatusRejected(r.status)
                 THEN /\ err' = "unexpected HTTP status" /\ pc' = "done"
                      /\ status' = r.status
                      /\ UNCHANGED reader
                 ELSE /\ reader' = r.body /\ status' = r.status /\ pc' = "decode"
                      /\ UNCHANGED err
       ELSE /\ UNCHANGED <<requests, status>>
            /\ \E f \in FileOutcomes(DetectBodies) :
                 IF f.kind = "openerr"
                 THEN /\ err' = "error opening file" /\ pc' = "done"
                      /\ UNCHANGED reader
                 ELSE /\ reader' = f.body /\ pc' = "decode"
                      /\ UNCHANGED err
    /\ UNCHANGED <<auxVars, call, args, detectVars, loopVars, pureVars>>

\* the decoding of the root element and the switch on its name
DetectDecode ==
    /\ call = "DetectFeedType" /\ pc = "decode"
    /\ decodes' = decodes + 1
    /\ feedType' = DetectDecodeResult(reader).type
    /\ err' = DetectDecodeResult(reader).err
    /\ pc' = "done"
    /\ UNCHANGED <<inflight, auxVars, call, args, reader, status, requests, loopVars, pureVars>>

NextDetect == FeedIssue \/ DetectOpen \/ DetectDecode

SpecDetect == InitDetect /\ [][NextDetect]_vars

(***************************************************************************)
(* crawler.CrawlSitemap and crawler.CrawlRSS                               *)
(***************************************************************************)
Outcome(kind, resp) == [kind |-> kind, resp |-> resp]

\* goquery.NewDocumentFromReader on the feed: the HTML parser accepts any
\* markup and fails on a read error only
SitemapParseFails(body) == body.kind = "ioerr"

\* xml.Decoder.Decode(&rss): fails on a read error and on malformed XML
RSSDecodeFails(body) == body.kind # "ok"

\* the root element of the document a crawler is given
CrawlRoot == IF call = "CrawlSitemap" THEN XMLName("", "urlset") ELSE XMLName("", "rss")

Init ==
    /\ call \in {"CrawlSitemap", "CrawlRSS"} /\ pc = "open"
    /\ feedSource \in CrawlSources
    /\ cssSelector \in CssSelectors
    /\ format \in Formats
    /\ filter \in CrawlFilters
    /\ IOInit /\ StandAlone /\ TransformIdle /\ TokenizerEOF /\ DetectIdle /\ LoopIdle /\ PureIdle

\* both crawlers: the opening of the feed source returns
CrawlOpen ==
    /\ call \in {"CrawlSitemap", "CrawlRSS"} /\ pc = "open"
    /\ inflight = {Request(feedSource, 0)} /\ inflight' = {}
    /\ IF IsHTTPSource(feedSource)
       THEN /\ requests' = Append(requests, Request(feedSource, 0))
            /\ \E r \in FeedResponses(CrawlBodies(CrawlRoot)) :
                 IF r.kind = "geterr"
                 THEN /\ err' = "failed to fetch feed" /\ pc' = "done"
                      /\ UNCHANGED <<reader, status>>
                 ELSE /\ reader' = r.body /\ status' = r.status /\ pc' = "parse"
                      /\ UNCHANGED err
       ELSE /\ UNCHANGED <<requests, status>>
            /\ \E f \in FileOutcomes(CrawlBodies(CrawlRoot)) :
                 IF f.kind = "openerr"
                 THEN /\ err' = "failed to open feed file" /\ pc' = "done"
                      /\ UNCHANGED reader
                 ELSE /\ reader' = f.body /\ pc' = "parse"
                      /\ UNCHANGED err
    /\ UNCHANGED <<auxVars, call, args, detectVars, loopVars, pureVars>>

\* CrawlSitemap: the parse of the feed and doc.Find("url loc")
CrawlSitemapParse ==
    /\ call = "CrawlSitemap" /\ pc = "parse"
    /\ IF SitemapParseFails(reader)
       THEN /\ err' = "error parsing sitemap" /\ pc' = "done"
            /\ UNCHANGED items
       ELSE /\ items' = reader.entries /\ pc' = "loop"
            /\ UNCHANGED err
    /\ UNCHANGED <<inflight, auxVars, call, args, reader, status, requests, detectVars, idx, bar, pages,
                   outcome, result, pureVars>>

\* CrawlRSS: the decoding of the feed into rss.Items
CrawlRSSParse ==
    /\ call = "CrawlRSS" /\ pc = "parse"
    /\ IF RSSDecodeFails(reader)
       THEN /\ err' = "error decoding RSS feed" /\ pc' = "done"
            /\ UNCHANGED items
       ELSE /\ items' = reader.entries /\ pc' = "loop"
            /\ UNCHANGED err
    /\ UNCHANGED <<inflight, auxVars, call, args, reader, status, requests, detectVars, idx, bar, pages,
                   outcome, result, pureVars>>

\* a skip that leaves the progress bar alone
SkipEntryUncounted(kind, resp) ==
    /\ bar' = bar
    /\ outcome' = Append(outcome, Outcome(kind, resp))
    /\ UNCHANGED pages

\* one entry is consumed without a page: bar.Add(1) and return / continue
SkipEntry(kind, resp) ==
    /\ bar' = bar + 1
    /\ outcome' = Append(outcome, Outcome(kind, resp))
    /\ UNCHANGED pages

\* an append that drops a page whose URL is already in the output
AppendPageDedup(page, resp) ==
    /\ pages' = IF \E j \in 1..Len(pages) : pages[j].URL = page.URL THEN pages
                ELSE Append(pages, page)
    /\ bar' = bar + 1
    /\ outcome' = Append(outcome, Outcome("ok", resp))

\* one entry yields a page: append, bar.Add(1)
AppendPage(page, resp) ==
    /\ pages' = Append(pages, page)
    /\ bar' = bar + 1
    /\ outcome' = Append(outcome, Outcome("ok", resp))

\* a loop body that lacks the return after a failed extraction
SitemapPageKeepsFailed(r, resp) == AppendPage(r.page, resp)

\* CrawlSitemap: what the loop does with the result r of extractPage
SitemapPage(r, resp) ==
    IF r.err # "nil" THEN SkipEntry("failed", resp) ELSE AppendPage(r.page, resp)

\* a loop body that keeps the page's own description when the feed has none
RSSPageKeepsDescription(r, item, resp) ==
    IF r.err # "nil" THEN SkipEntry("failed", resp)
    ELSE AppendPage(IF item.Description = "" THEN r.page
                    ELSE [r.page EXCEPT !.Description = item.Description], resp)

\* CrawlRSS: what the loop does with the result r of extractPage
RSSPage(r, item, resp) ==
    IF r.err # "nil" THEN SkipEntry("failed", resp)
    ELSE AppendPage([r.page EXCEPT !.Description = item.Description], resp)

\* an empty-link check that never fires
LinkMissingNever(item) == FALSE

\* CrawlRSS: item.Link == ""
LinkMissing(item) == item.Link = EmptyString

\* a fan-out that starts the fetch of a later entry while reads are in flight
PageFanOut ==
    /\ call \in {"CrawlSitemap", "CrawlRSS"} /\ pc = "loop"
    /\ idx + Cardinality(inflight) < Len(items)
    /\ inflight' =
           inflight \cup {Request(items[idx + Cardinality(inflight) + 1].Link,
                                  idx + Cardinality(inflight) + 1)}
    /\ UNCHANGED <<auxVars, call, pc, args, reader, status, requests, err, detectVars,
                   loopVars, pureVars>>

\* the k-th entry is one the loop calls extractPage for
EntryFetched(k) ==
    /\ ~(call = "CrawlRSS" /\ LinkMissing(items[k]))
    /\ matchesFilter(items[k].Link, filter)

\* both crawlers: extractPage calls Client.Get(pageURL) for the next entry
\* and blocks: the read of the page is in flight
PageIssue ==
    /\ call \in {"CrawlSitemap", "CrawlRSS"} /\ pc = "loop" /\ idx < Len(items)
    /\ inflight = {}
    /\ EntryFetched(idx + 1)
    /\ inflight' = {Request(items[idx + 1].Link, idx + 1)}
    /\ UNCHANGED <<auxVars, call, pc, args, reader, status, requests, err, detectVars,
                   loopVars, pureVars>>

\* CrawlSitemap: the body of urls.Each for the next loc; for a loc that passes
\* the filter it goes on when the read of the page returns
SitemapEach ==
    /\ call = "CrawlSitemap" /\ pc = "loop" /\ idx < Len(items)
    /\ idx' = idx + 1
    /\ inflight' = {}
    /\ LET url == items[idx + 1].Link
       IN  IF ~matchesFilter(url, filter)
           THEN inflight = {} /\ SkipEntry("filtered", NoResponse) /\ UNCHANGED requests
           ELSE /\ inflight = {Request(url, idx + 1)}
                /\ requests' = Append(requests, Request(url, idx + 1))
                /\ \E resp \in PageResponses(url) :
                     SitemapPage(extractPage(url, cssSelector, format, resp), resp)
    /\ UNCHANGED <<auxVars, call, pc, args, reader, status, detectVars, items, result, err, pureVars>>

\* CrawlRSS: the body of the loop for the next item; for an item that is
\* fetched it goes on when the read of the page returns
RSSItem ==
    /\ call = "CrawlRSS" /\ pc = "loop" /\ idx < Len(items)
    /\ idx' = idx + 1
    /\ inflight' = {}
    /\ LET item == items[idx + 1]
       IN  IF LinkMissing(item)
           THEN inflight = {} /\ SkipEntry("nolink", NoResponse) /\ UNCHANGED requests
           ELSE IF ~matchesFilter(item.Link, filter)
           THEN inflight = {} /\ SkipEntry("filtered", NoResponse) /\ UNCHANGED requests
           ELSE /\ inflight = {Request(item.Link, idx + 1)}
                /\ requests' = Append(requests, Request(item.Link, idx + 1))
                /\ \E resp \in PageResponses(item.Link) :
                     RSSPage(extractPage(item.Link, cssSelector, format, resp), item, resp)
    /\ UNCHANGED <<auxVars, call, pc, args, reader, status, detectVars, items, result, err, pureVars>>

\* both crawlers: return pages, nil
CrawlReturn ==
    /\ call \in {"CrawlSitemap", "CrawlRSS"} /\ pc = "loop" /\ idx = Len(items)
    /\ result' = pages /\ err' = "nil" /\ pc' = "done"
    /\ UNCHANGED <<inflight, auxVars, call, args, reader, status, requests, detectVars, items, idx, bar,
                   pages, outcome, pureVars>>

Next ==
    \/ FeedIssue
    \/ CrawlOpen
    \/ CrawlSitemapParse
    \/ CrawlRSSParse
    \/ PageIssue
    \/ SitemapEach
    \/ RSSItem
    \/ CrawlReturn

Spec == Init /\ [][Next]_vars

\* the crawlers with a client whose timeout is any value of --timeout
InitTimed ==
    /\ call \in {"CrawlSitemap", "CrawlRSS"} /\ pc = "open"
    /\ feedSource \in CrawlSources
    /\ cssSelector \in CssSelectors
    /\ format = "txt"
    /\ filter \in MainFilters
    /\ timeout \in Timeouts
    /\ caller = "none" /\ outputFiletype = "" /\ chosenFormat = "" /\ asked = FALSE
    /\ ExportIdle
    /\ IOInit /\ TransformIdle /\ TokenizerEOF /\ DetectIdle /\ LoopIdle /\ PureIdle

\* a read over the network returns
NetworkReturn ==
    \/ CrawlOpen /\ IsHTTPSource(feedSource)
    \/ (SitemapEach \/ RSSItem) /\ inflight # {}

\* the steps that wait for nothing but the processor or a local file
LocalStep ==
    \/ FeedIssue
    \/ CrawlOpen /\ ~IsHTTPSource(feedSource)
    \/ CrawlSitemapParse
    \/ CrawlRSSParse
    \/ PageIssue
    \/ (SitemapEach \/ RSSItem) /\ inflight = {}
    \/ CrawlReturn

\* a local step can be taken: the feed is to be opened, a local file has been
\* opened, the feed is to be parsed, or the loop is at an entry or at its end
\* with no read in flight
LocalEnabled ==
    \/ pc = "parse"
    \/ pc \in {"open", "loop"} /\ inflight = {}
    \/ pc = "open" /\ inflight # {} /\ ~IsHTTPSource(feedSource)

\* a read over the network is in flight
NetworkEnabled == inflight # {} /\ (pc = "loop" \/ IsHTTPSource(feedSource))

\* the program is one sequential process: a local step is taken when it can
\* be. A read over the network returns, with a response or an error, when the
\* client has a timeout (http.Client: a Timeout of zero means no timeout).
\* Both are weak fairness, WF_vars(LocalStep) and
\* WF_vars(timeout > 0 /\ NetworkReturn), written with the enabling
\* conditions of the steps as the state predicates above.
SpecTimed ==
    /\ InitTimed /\ [][Next]_vars
    /\ WF_vars(FeedIssue \/ CrawlSitemapParse \/ CrawlRSSParse \/ CrawlReturn)
    /\ ([]<>~LocalEnabled \/ []<><<LocalStep>>_vars)
    /\ ([]<>~(timeout > 0 /\ NetworkEnabled) \/ []<><<NetworkReturn>>_vars)

(***************************************************************************)
(* main: executeCrawlAndExport                                             *)
(***************************************************************************)
\* strings.ToLower on the names of the inputs
LowerName(n) ==
    CASE n = "PDF"  -> "pdf"
      [] n = "MD"   -> "md"
      [] n = "HTML" -> "html"
      [] n = "JSON" -> "json"
      [] n = "Txt"  -> "txt"
      [] OTHER      -> n

EqualFold(a, b) == LowerName(a) = LowerName(b)

isValidOutputType(outputType) ==
    \E t \in {"txt", "json", "jsonl", "md", "pdf"} : EqualFold(t, outputType)

isValidFormat(f) == \E t \in {"html", "md", "txt"} : EqualFold(t, f)

\* promptUser(message, defaultValue), given the line the user types
promptUser(input, defaultValue) == IF input = "" THEN defaultValue ELSE input

\* the validation of the output type and the choice of the content format:
\* flag is the value of --format, answer what the user types if asked
settings(type, answer, flag) ==
    IF ~isValidOutputType(type)
    THEN [err |-> "unsupported output file type", asked |-> FALSE, chosen |-> flag,
          format |-> flag]
    ELSE IF EqualFold(type, "pdf")
    THEN [err |-> IF isValidFormat(promptUser(answer, flag)) THEN "nil"
                  ELSE "unsupported content format",
          asked |-> TRUE, chosen |-> promptUser(answer, flag),
          format |-> promptUser(answer, flag)]
    ELSE [err |-> "nil", asked |-> FALSE, chosen |-> flag,
          format |-> IF LowerName(type) = "md" THEN "md" ELSE "txt"]

InitMain ==
    /\ call = "main" /\ pc = "settings" /\ caller = "main"
    /\ feedSource \in MainSources
    /\ cssSelector \in CssSelectors
    /\ format \in FormatFlags
    /\ filter \in MainFilters
    /\ timeout = DefaultTimeout
    /\ outputFiletype = "txt" /\ chosenFormat = "" /\ asked = FALSE
    /\ ExportIdle
    /\ IOInit /\ TransformIdle /\ TokenizerEOF /\ DetectIdle /\ LoopIdle /\ PureIdle

\* what MainSettings does with the result r of settings and the answer to
\* "Do you want to proceed"
ApplySettings(r, confirmation) ==
    /\ asked' = r.asked /\ chosenFormat' = r.chosen /\ format' = r.format
    /\ IF r.err # "nil" THEN err' = r.err /\ pc' = "exit"
       ELSE /\ err' = err
            /\ pc' = IF LowerName(promptUser(confirmation, "y")) # "y"
                     THEN "cancelled" ELSE "detect"

\* the prompts, the validation of the output type and the content format, and
\* the confirmation
MainSettings ==
    /\ call = "main" /\ pc = "settings"
    /\ \E type \in OutputTypes, answer \in FormatAnswers, confirmation \in Confirmations :
          /\ outputFiletype' = type
          /\ ApplySettings(settings(type, answer, format), confirmation)
    /\ UNCHANGED <<inflight, tokenizerErr, renderVars, transformVars, timeout, caller, call,
                   formattedContent, file, writes,
                   feedSource, cssSelector, filter, reader, status, requests,
                   detectVars, loopVars, pureVars>>

\* crawler.Client.Timeout = timeout and the call of feed.DetectFeedType
MainDetectCall ==
    /\ call = "main" /\ pc = "detect"
    /\ \E t \in Timeouts : timeout' = t
    /\ call' = "DetectFeedType" /\ pc' = "open"
    /\ UNCHANGED <<inflight, tokenizerErr, renderVars, transformVars, mainVars, args, reader, status,
                   requests, err, detectVars, loopVars, pureVars>>

\* what main does with the type and the error DetectFeedType returns
MainCrawlCall ==
    /\ caller = "main" /\ call = "DetectFeedType" /\ pc = "done"
    /\ IF err # "nil"
       THEN /\ call' = "main" /\ pc' = "exit"
            /\ UNCHANGED <<reader, status, err>>
       ELSE IF feedType \notin {"rss", "sitemap"}
       THEN /\ call' = "main" /\ pc' = "exit" /\ err' = "unknown feed type detected"
            /\ UNCHANGED <<reader, status>>
       ELSE /\ call' = IF feedType = "rss" THEN "CrawlRSS" ELSE "CrawlSitemap"
            /\ pc' = "open"
            /\ reader' = NoBody /\ status' = 0 /\ err' = "none"
    /\ UNCHANGED <<inflight, auxVars, args, requests, detectVars, loopVars, pureVars>>

\* a main that treats a crawl without pages as a fatal error
MainExportNeedsPages ==
    /\ caller = "main" /\ call \in {"CrawlSitemap", "CrawlRSS"} /\ pc = "done"
    /\ call' = "main"
    /\ pc' = IF err = "nil" /\ result # <<>> THEN "crawled" ELSE "exit"
    /\ UNCHANGED <<inflight, auxVars, args, reader, status, requests, err, detectVars,
                   loopVars, pureVars>>

\* what main does with the pages and the error the crawler returns; with the
\* pages it goes on to format and write them
MainExport ==
    /\ caller = "main" /\ call \in {"CrawlSitemap", "CrawlRSS"} /\ pc = "done"
    /\ call' = "main"
    /\ pc' = IF err = "nil" THEN "crawled" ELSE "exit"
    /\ UNCHANGED <<inflight, auxVars, args, reader, status, requests, err, detectVars,
                   loopVars, pureVars>>

\* a FormatPages that folds the case of the format before its switch
FormatPagesFolded(ps, type) ==
    CASE LowerName(type) = "json"  -> [err |-> "nil", content |-> [layout |-> "json", pages |-> ps]]
      [] LowerName(type) = "jsonl" -> [err |-> "nil", content |-> [layout |-> "jsonl", pages |-> ps]]
      [] LowerName(type) \in {"txt", "md", "pdf"} ->
             [err |-> "nil", content |-> [layout |-> "text", pages |-> ps]]
      [] OTHER -> [err |-> "unsupported format", content |-> NoFormatted]

\* formatter.FormatPages(pages, format): the pages laid out as JSON, as JSON
\* lines or as text
FormatPages(ps, type) ==
    CASE type = "json"  -> [err |-> "nil", content |-> [layout |-> "json", pages |-> ps]]
      [] type = "jsonl" -> [err |-> "nil", content |-> [layout |-> "jsonl", pages |-> ps]]
      [] type \in {"txt", "md", "pdf"} ->
             [err |-> "nil", content |-> [layout |-> "text", pages |-> ps]]
      [] OTHER -> [err |-> "unsupported format", content |-> NoFormatted]

\* writer.WriteToFile(filename, content, format), given what the creation of
\* the file and the write of the content do; old is the file before the call
WriteToFile(old, content, type, written) ==
    IF type \notin {"txt", "md", "json", "jsonl", "pdf"}
    THEN [err |-> "unsupported file format", file |-> old]
    ELSE IF written = "createerr"
    THEN [err |-> "error creating file", file |-> old]
    ELSE IF written = "writeerr"
    THEN [err |-> "error writing to file",
          file |-> [state |-> "partial", type |-> type, content |-> NoFormatted]]
    ELSE [err |-> "nil", file |-> [state |-> "written", type |-> type, content |-> content]]

\* Step 3: formatter.FormatPages(pages, outputFiletype) and handleError
MainFormat ==
    /\ caller = "main" /\ call = "main" /\ pc = "crawled"
    /\ LET r == FormatPages(result, outputFiletype)
       IN  IF r.err # "nil"
           THEN err' = r.err /\ pc' = "exit" /\ UNCHANGED formattedContent
           ELSE formattedContent' = r.content /\ pc' = "formatted" /\ UNCHANGED err
    /\ UNCHANGED <<inflight, tokenizerErr, renderVars, transformVars, timeout, caller, call,
                   outputFiletype, chosenFormat, asked, file, writes, args, reader, status,
                   requests, detectVars, loopVars, pureVars>>

\* Step 4: writer.WriteToFile, handleError and the message of success
MainWrite ==
    /\ caller = "main" /\ call = "main" /\ pc = "formatted"
    /\ writes' = writes + 1
    /\ \E written \in WriteOutcomes :
          LET w == WriteToFile(file, formattedContent, outputFiletype, written)
          IN  /\ file' = w.file
              /\ IF w.err # "nil"
                 THEN err' = w.err /\ pc' = "exit"
                 ELSE pc' = "saved" /\ UNCHANGED err
    /\ UNCHANGED <<inflight, tokenizerErr, renderVars, transformVars, timeout, caller, call,
                   outputFiletype, chosenFormat, asked, formattedContent, args, reader,
                   status, requests, detectVars, loopVars, pureVars>>

NextMain ==
    \/ MainSettings
    \/ MainDetectCall
    \/ FeedIssue
    \/ DetectOpen
    \/ DetectDecode
    \/ MainCrawlCall
    \/ CrawlOpen
    \/ CrawlSitemapParse
    \/ CrawlRSSParse
    \/ PageIssue
    \/ SitemapEach
    \/ RSSItem
    \/ CrawlReturn
    \/ MainExport
    \/ MainFormat
    \/ MainWrite

SpecMain == InitMain /\ [][NextMain]_vars

(***************************************************************************)
(* html2text.Convert on its own inputs.                                    *)
(***************************************************************************)
InitText ==
    /\ call = "Convert" /\ pc = "each"
    /\ textDoc \in TextDocs
    /\ textIdx = 0 /\ contentBuilder = <<>>
    /\ htmlContent = EmptyString /\ TransformLocalsIdle /\ transformed = NoTransform
    /\ feedSource = EmptyString /\ ArgsIdle
    /\ IOInit /\ StandAlone /\ TokenizerEOF /\ DetectIdle /\ LoopIdle /\ PureIdle

\* Convert: the callback of Each, handleElement(&contentBuilder, s, 0), on the
\* next node of the body
ConvertEach ==
    /\ call = "Convert" /\ pc = "each" /\ textIdx < Len(textDoc)
    /\ contentBuilder' = handleElement(contentBuilder, textDoc[textIdx + 1], 0)
    /\ textIdx' = textIdx + 1
    /\ UNCHANGED <<inflight, timeout, mainVars, tokenizerErr, transformVars, textDoc, call,
                   pc, args, reader, status, requests, err, detectVars, loopVars, pureVars>>

\* Convert: return contentBuilder.String(), nil
ConvertReturn ==
    /\ call = "Convert" /\ pc = "each" /\ textIdx = Len(textDoc)
    /\ err' = "nil" /\ pc' = "done"
    /\ UNCHANGED <<inflight, auxVars, call, args, reader, status, requests, detectVars,
                   loopVars, pureVars>>

NextText == ConvertEach \/ ConvertReturn

SpecText == InitText /\ [][NextText]_vars

(***************************************************************************)
(* matchesFilter and fixRelativeUrls on their own inputs.                  *)
(***************************************************************************)
InitFilter ==
    /\ call = "matchesFilter" /\ pc = "call"
    /\ pageURL \in FilterURLs
    /\ filter \in Filters
    /\ feedSource = EmptyString /\ cssSelector = "" /\ format = ""
    /\ matched = FALSE /\ dom0 = NoDoc /\ dom = NoDoc
    /\ IOInit /\ StandAlone /\ TransformIdle /\ TokenizerEOF /\ DetectIdle /\ LoopIdle

MatchesFilterCall ==
    /\ call = "matchesFilter" /\ pc = "call"
    /\ matched' = matchesFilter(pageURL, filter)
    /\ pc' = "done"
    /\ UNCHANGED <<inflight, auxVars, call, args, reader, status, requests, err, detectVars, loopVars,
                   pageURL, dom0, dom>>

NextFilter == MatchesFilterCall

SpecFilter == InitFilter /\ [][NextFilter]_vars

InitLinks ==
    /\ call = "fixRelativeUrls" /\ pc = "call"
    /\ pageURL \in LinkPageURLs
    /\ dom0 \in LinkDocs
    /\ dom = dom0
    /\ matched = FALSE
    /\ feedSource = EmptyString /\ ArgsIdle
    /\ IOInit /\ StandAlone /\ TransformIdle /\ TokenizerEOF /\ DetectIdle /\ LoopIdle

\* extractPage: the rewriting of the links of the fetched page
FixRelativeUrlsCall ==
    /\ call = "fixRelativeUrls" /\ pc = "call"
    /\ dom' = rewriteLinks(dom, getDomainFromURL(pageURL))
    /\ pc' = "done"
    /\ UNCHANGED <<inflight, auxVars, call, args, reader, status, requests, err, detectVars, loopVars,
                   pageURL, matched, dom0>>

NextLinks == FixRelativeUrlsCall

SpecLinks == InitLinks /\ [][NextLinks]_vars

(***************************************************************************)
(* extractPage on its own inputs.                                          *)
(***************************************************************************)
InitExtract ==
    /\ call = "extractPage" /\ pc = "call"
    /\ pageURL = UrlBlogPost
    /\ cssSelector \in CssSelectors
    /\ format \in ExtractFormats
    /\ tokenizerErr \in TokenizerErrs
    /\ feedSource = EmptyString /\ filter = EmptyString
    /\ matched = FALSE /\ dom0 = NoDoc /\ dom = NoDoc
    /\ IOInit /\ StandAlone /\ TransformIdle /\ DetectIdle /\ LoopIdle

\* extractPage(pageURL, cssSelector, format): pages holds the Page returned,
\* result the Page when the error is nil
ExtractPageCall ==
    /\ call = "extractPage" /\ pc = "call"
    /\ requests' = Append(requests, Request(pageURL, 1))
    /\ \E resp \in ExtractResponses :
          /\ outcome' = <<Outcome(resp.kind, resp)>>
          /\ dom0' = resp.doc
          /\ dom' = rewriteLinks(resp.doc, getDomainFromURL(pageURL))
          /\ err' = extractPage(pageURL, cssSelector, format, resp).err
          /\ pages' = <<extractPage(pageURL, cssSelector, format, resp).page>>
          /\ result' = IF extractPage(pageURL, cssSelector, format, resp).err = "nil"
                       THEN <<extractPage(pageURL, cssSelector, format, resp).page>>
                       ELSE <<>>
    /\ pc' = "done"
    /\ UNCHANGED <<inflight, timeout, mainVars, tokenizerErr, renderVars, transformVars, call, args, reader, status, detectVars,
                   items, idx, bar, pageURL, matched>>

NextExtract == ExtractPageCall

SpecExtract == InitExtract /\ [][NextExtract]_vars

(***************************************************************************)
(* extractAndTransformContentFromText, statement by statement.             *)
(***************************************************************************)
InitTransform ==
    /\ call = "extractAndTransformContentFromText" /\ pc = "decode"
    /\ htmlContent \in Fragments
    /\ format \in TransformFormats
    /\ tokenizerErr \in TokenizerErrs
    /\ TransformLocalsIdle /\ transformed = NoTransform /\ RenderIdle
    /\ feedSource = EmptyString /\ cssSelector = "" /\ filter = EmptyString
    /\ IOInit /\ StandAlone /\ DetectIdle /\ LoopIdle /\ PureIdle

\* decodedContent := html.UnescapeString(content)
TransformDecode ==
    /\ call = "extractAndTransformContentFromText" /\ pc = "decode"
    /\ decodedContent' = UnescapeString(htmlContent)
    /\ pc' = "sanitize"
    /\ UNCHANGED <<inflight, timeout, mainVars, tokenizerErr, renderVars, htmlContent, sanitizedContent, transformed, call, args,
                   reader, status, requests, err, detectVars, loopVars, pureVars>>

\* sanitizedContent, _ := sanitize.HTMLAllowing(decodedContent, ...)
TransformSanitize ==
    /\ call = "extractAndTransformContentFromText" /\ pc = "sanitize"
    /\ sanitizedContent' = HTMLAllowing(decodedContent, allowedTags, allowedAttributes).out
    /\ pc' = "normalize"
    /\ UNCHANGED <<inflight, timeout, mainVars, tokenizerErr, renderVars, htmlContent, decodedContent, transformed, call, args,
                   reader, status, requests, err, detectVars, loopVars, pureVars>>

\* sanitizedContent = removeExcessNewlines(sanitizedContent)
TransformNormalize ==
    /\ call = "extractAndTransformContentFromText" /\ pc = "normalize"
    /\ sanitizedContent' = removeExcessNewlines(sanitizedContent)
    /\ pc' = "switch"
    /\ UNCHANGED <<inflight, timeout, mainVars, tokenizerErr, renderVars, htmlContent, decodedContent, transformed, call, args,
                   reader, status, requests, err, detectVars, loopVars, pureVars>>

\* switch format
TransformSwitch ==
    /\ call = "extractAndTransformContentFromText" /\ pc = "switch"
    /\ transformed' = formatSwitch(sanitizedContent, format)
    /\ pc' = "done"
    /\ UNCHANGED <<inflight, timeout, mainVars, tokenizerErr, renderVars, htmlContent, decodedContent, sanitizedContent, call, args,
                   reader, status, requests, err, detectVars, loopVars, pureVars>>

NextTransform ==
    \/ TransformDecode
    \/ TransformSanitize
    \/ TransformNormalize
    \/ TransformSwitch

SpecTransform == InitTransform /\ [][NextTransform]_vars

(***************************************************************************)
(* Properties of feed.DetectFeedType (SpecDetect).                         *)
(***************************************************************************)
DetectDone == call = "DetectFeedType" /\ pc = "done"

\* C1: DetectFeedType returns "sitemap" exactly when the decoded root
\* element's local name is urlset and "rss" exactly when it is rss; for
\* every other root name it returns the unknown-feed-type error with an
\* empty type; no other type value is ever returned, and a non-empty type
\* never comes with an error.
DetectTypeFollowsRoot ==
    DetectDone =>
        /\ feedType \in {"sitemap", "rss", ""}
        /\ (feedType = "sitemap" => err = "nil" /\ reader.root.Local = "urlset")
        /\ (feedType = "rss" => err = "nil" /\ reader.root.Local = "rss")
        /\ (feedType = "" => err \notin {"nil", "none"})
        /\ (decodes = 1 /\ reader.kind = "ok" =>
              /\ (reader.root.Local = "urlset" => feedType = "sitemap")
              /\ (reader.root.Local = "rss" => feedType = "rss")
              /\ (reader.root.Local \notin {"urlset", "rss"} =>
                    feedType = "" /\ err = "unknown feed type"))

\* a well-formed document with root RSS (not rss) was decoded and rejected
DetectUnknownRootReached ==
    /\ DetectDone /\ decodes = 1 /\ reader.kind = "ok"
    /\ reader.root.Local = "RSS"
    /\ feedType = "" /\ err = "unknown feed type"

NonSuccess(st) == st < 200 \/ st > 299

\* C2: for an http(s) source, a response with a non-success status makes
\* DetectFeedType fail with the HTTP status error and an empty type without
\* any XML decoding having been started; a decoding is only ever started
\* after a response whose status passed the check.
StatusCheckedBeforeDecode ==
    (call = "DetectFeedType" /\ IsHTTPSource(feedSource)) =>
        /\ (status # 0 /\ NonSuccess(status) =>
              /\ decodes = 0 /\ pc = "done"
              /\ err = "unexpected HTTP status" /\ feedType = "")
        /\ (decodes > 0 \/ pc = "decode" => status # 0 /\ ~NonSuccess(status))

\* a 404 response ended the call before any decoding
DetectStatusRejectedReached ==
    /\ DetectDone /\ IsHTTPSource(feedSource) /\ status = 404
    /\ decodes = 0 /\ err = "unexpected HTTP status"

(***************************************************************************)
(* Properties of the crawlers (Spec).                                      *)
(***************************************************************************)
Crawling == call \in {"CrawlSitemap", "CrawlRSS"}

StartsWith(s, p) == Len(p) <= Len(s) /\ \A i \in 1..Len(p) : s[i] = p[i]

DropOneStar(f) == IF Len(f) > 0 /\ f[Len(f)] = "*" THEN SubSeq(f, 1, Len(f) - 1) ELSE f

DropOneSlash(path) == IF Len(path) > 0 /\ path[1] = "/" THEN SubSeq(path, 2, Len(path)) ELSE path

\* the filter rule: "" and "*" accept everything; otherwise the URL must
\* parse and its decoded path, less one leading "/", must start with the
\* filter less one trailing "*"
FilterAccepts(url, f) ==
    \/ f \in {<<>>, <<"*">>}
    \/ /\ Parse(url).ok
       /\ StartsWith(DropOneSlash(Parse(url).url.Path), DropOneStar(f))

PageRequests == {k \in 1..Len(requests) : requests[k].entry # 0}

\* what the i-th entry contributes to the output when page failures only
\* remove the failing entry
ExpectedOf(i) ==
    IF (call = "CrawlRSS" /\ items[i].Link = <<>>) \/ ~FilterAccepts(items[i].Link, filter)
    THEN <<>>
    ELSE IF extractPage(items[i].Link, cssSelector, format, outcome[i].resp).err # "nil"
    THEN <<>>
    ELSE IF call = "CrawlRSS"
    THEN <<[extractPage(items[i].Link, cssSelector, format, outcome[i].resp).page
               EXCEPT !.Description = items[i].Description]>>
    ELSE <<extractPage(items[i].Link, cssSelector, format, outcome[i].resp).page>>

RECURSIVE ExpectedPages(_)
ExpectedPages(n) == IF n = 0 THEN <<>> ELSE ExpectedPages(n - 1) \o ExpectedOf(n)

\* C3 (as claimed): whenever the feed source cannot be read or the feed body
\* is malformed XML, the crawler - sitemap or RSS - never enters its loop,
\* fetches no page, and returns an error and no pages.
FeedErrorAborts ==
    (Crawling /\ reader.kind \in {"truncated", "ioerr"}) =>
        /\ pc \in {"parse", "done"}
        /\ PageRequests = {}
        /\ pages = <<>>
        /\ (pc = "done" => err \notin {"nil", "none"} /\ result = <<>>)

\* C4: a page-level failure never aborts the crawl and never changes what
\* the other entries yield: at every point the accumulated pages are those
\* of the consumed entries with the failing ones left out; once the loop has
\* consumed an entry the call can only end with a nil error, and it then has
\* consumed every entry and returns exactly those pages (the empty sequence
\* when every entry failed or was skipped).
PageFailuresIsolated ==
    Crawling =>
        /\ Len(outcome) = idx
        /\ pages = ExpectedPages(idx)
        /\ (pc = "done" /\ err # "nil" => idx = 0 /\ PageRequests = {} /\ result = <<>>)
        /\ (pc = "done" /\ err = "nil" => idx = Len(items) /\ result = pages)

\* a crawl ended with nil error although an entry failed before a later one
\* yielded a page
FailureThenPageReached ==
    /\ Crawling /\ pc = "done" /\ err = "nil"
    /\ \E i, j \in 1..idx : i < j /\ outcome[i].kind = "failed" /\ outcome[j].kind = "ok"
    /\ Len(result) = 1

RECURSIVE OkLinks(_)
OkLinks(n) ==
    IF n = 0 THEN <<>>
    ELSE OkLinks(n - 1) \o (IF outcome[n].kind = "ok" THEN <<items[n].Link>> ELSE <<>>)

\* C5: at every point of a crawl the URL fields of the accumulated pages are,
\* in feed order and verbatim, the links of the consumed entries that were
\* extracted successfully: a subsequence of the feed, nothing reordered,
\* rewritten or deduplicated (an entry that occurs twice and extracts twice
\* yields two pages).
PagesFollowFeedOrder ==
    Crawling =>
        /\ Len(outcome) = idx
        /\ [j \in 1..Len(pages) |-> pages[j].URL] = OkLinks(idx)

\* the same link occurred twice in the feed and yielded two pages
DuplicateEntryTwoPagesReached ==
    /\ Crawling /\ Len(pages) = 2 /\ pages[1].URL = pages[2].URL
    /\ items[1].Link = items[2].Link

\* C6: in both crawlers a page request is only ever issued for a feed entry
\* whose URL the filter accepts, with that URL; an entry the filter rejects
\* is consumed without a request and no page in the output has a URL the
\* filter rejects.
FilterBeforeFetch ==
    Crawling =>
        /\ \A k \in PageRequests :
              /\ requests[k].entry \in 1..idx
              /\ requests[k].url = items[requests[k].entry].Link
              /\ FilterAccepts(requests[k].url, filter)
        /\ \A i \in 1..idx :
              ~FilterAccepts(items[i].Link, filter) =>
                  /\ outcome[i].resp = NoResponse
                  /\ \A k \in PageRequests : requests[k].entry # i
        /\ \A j \in 1..Len(pages) : FilterAccepts(pages[j].URL, filter)

\* an entry was filtered out without a request and a later entry was fetched
FilteredThenFetchedReached ==
    /\ Crawling /\ pc = "done"
    /\ \E i, j \in 1..idx :
          /\ i < j /\ outcome[i].kind = "filtered"
          /\ \A k \in PageRequests : requests[k].entry # i
          /\ \E k \in PageRequests : requests[k].entry = j

\* C8: in CrawlRSS an item with an empty link is never fetched and never
\* appears in the output; the items after it are still consumed and the call
\* does not return an error because of it.
EmptyLinkSkipped ==
    call = "CrawlRSS" =>
        /\ \A i \in 1..idx :
              items[i].Link = <<>> =>
                  /\ outcome[i].kind = "nolink"
                  /\ \A k \in PageRequests : requests[k].entry # i
        /\ \A k \in PageRequests : requests[k].url # <<>>
        /\ \A j \in 1..Len(pages) : pages[j].URL # <<>>
        /\ (pc = "done" /\ items # <<>> => err = "nil" /\ idx = Len(items))

\* an item with an empty link was skipped and a later item yielded a page
EmptyLinkThenPageReached ==
    /\ call = "CrawlRSS" /\ pc = "done" /\ err = "nil"
    /\ \E i, j \in 1..idx : i < j /\ items[i].Link = <<>> /\ outcome[j].kind = "ok"
    /\ Len(result) = 1

\* the entry the j-th page came from
OkIndex(j) ==
    CHOOSE i \in 1..idx :
        outcome[i].kind = "ok" /\ Cardinality({m \in 1..i : outcome[m].kind = "ok"}) = j

\* C9: every page of CrawlRSS has the description of the feed item it came
\* from, whatever description the page itself carries (also when the item's
\* description is empty), while its title, URL, tags and content are those
\* of the page extraction.
RSSDescriptionFromFeed ==
    call = "CrawlRSS" =>
        \A j \in 1..Len(pages) :
            /\ pages[j].Description = items[OkIndex(j)].Description
            /\ pages[j].Title = outcome[OkIndex(j)].resp.doc.title
            /\ pages[j].URL = items[OkIndex(j)].Link
            /\ pages[j].Tags =
                 extractPage(items[OkIndex(j)].Link, cssSelector, format,
                             outcome[OkIndex(j)].resp).page.Tags
            /\ pages[j].Content =
                 extractPage(items[OkIndex(j)].Link, cssSelector, format,
                             outcome[OkIndex(j)].resp).page.Content

\* a page with a meta description came from an item without description and
\* carries the empty description
EmptyFeedDescriptionWinsReached ==
    /\ call = "CrawlRSS"
    /\ \E j \in 1..Len(pages) :
          /\ items[OkIndex(j)].Description = ""
          /\ outcome[OkIndex(j)].resp.doc.description = "PD"
          /\ pages[j].Description = ""
          /\ pages[j].Tags = <<<<"a">>, <<"b">>>>

(***************************************************************************)
(* Properties of matchesFilter (SpecFilter).                               *)
(***************************************************************************)
FilterDone == call = "matchesFilter" /\ pc = "done"

\* the text of s before the first occurrence of the character c
UpTo(s, c) ==
    IF \E i \in 1..Len(s) : s[i] = c
    THEN SubSeq(s, 1, (CHOOSE i \in 1..Len(s) : s[i] = c /\ \A k \in 1..(i - 1) : s[k] # c) - 1)
    ELSE s

\* the text of s from the first "/" on, empty when there is none
FromSlash(s) ==
    IF \E i \in 1..Len(s) : s[i] = "/"
    THEN SubSeq(s, CHOOSE i \in 1..Len(s) : s[i] = "/" /\ \A k \in 1..(i - 1) : s[k] # "/", Len(s))
    ELSE <<>>

SchemeEnd(s) ==
    IF \E i \in 1..(Len(s) - 2) : SubSeq(s, i, i + 2) = <<":", "/", "/">>
    THEN CHOOSE i \in 1..(Len(s) - 2) :
             /\ SubSeq(s, i, i + 2) = <<":", "/", "/">>
             /\ \A k \in 1..(i - 1) : SubSeq(s, k, k + 2) # <<":", "/", "/">>
    ELSE 0

\* the path as written in the URL: what stands between scheme://authority
\* and the query or fragment
WrittenPath(url) ==
    IF SchemeEnd(UpTo(UpTo(url, "#"), "?")) = 0
    THEN UpTo(UpTo(url, "#"), "?")
    ELSE FromSlash(SubSeq(UpTo(UpTo(url, "#"), "?"),
                          SchemeEnd(UpTo(UpTo(url, "#"), "?")) + 3,
                          Len(UpTo(UpTo(url, "#"), "?"))))

\* C7 (as claimed): matchesFilter is true for the filters "" and "*", and
\* for any other filter it is true exactly when the URL's path, less its
\* leading "/", starts with the filter less one trailing "*": a function of
\* the path alone, whatever the host and the query are.
MatchesFilterPathOnly ==
    FilterDone =>
        matched = (\/ filter \in {<<>>, <<"*">>}
                   \/ StartsWith(DropOneSlash(WrittenPath(pageURL)), DropOneStar(filter)))

\* C7 (amended): matchesFilter is true for the filters "" and "*"; for any
\* other filter it is false when the URL does not parse, and otherwise true
\* exactly when the percent-decoded path of the parsed URL, less one leading
\* "/", starts with the filter less one trailing "*".
MatchesFilterRule == FilterDone => matched = FilterAccepts(pageURL, filter)

\* a URL that does not parse is rejected although its written path starts
\* with the filter
UnparsableURLRejectedReached ==
    /\ FilterDone /\ filter = FilterBlog
    /\ ~Parse(pageURL).ok
    /\ StartsWith(DropOneSlash(WrittenPath(pageURL)), DropOneStar(filter))
    /\ ~matched

(***************************************************************************)
(* Properties of fixRelativeUrls (SpecLinks).                              *)
(***************************************************************************)
LinksDone == call = "fixRelativeUrls" /\ pc = "done"

\* the rewriting rule with the "#" exemption for anchors only
RewrittenElem(e, origin) ==
    IF e.has /\ isRelativeURL(e.val) /\ ~(e.tag = "a" /\ Len(e.val) > 0 /\ e.val[1] = "#")
    THEN [e EXCEPT !.val = toAbsoluteURL(origin, e.val)]
    ELSE e

\* C10 (as claimed): link rewriting replaces every anchor href and every
\* image src that is a relative reference by its resolution against the
\* page's origin, except an anchor href beginning with "#"; an image src
\* that is relative is always rewritten and absolute values are unchanged.
AnchorExemptionOnly ==
    LinksDone =>
        /\ Len(dom.elems) = Len(dom0.elems)
        /\ \A i \in 1..Len(dom0.elems) :
              dom.elems[i] = RewrittenElem(dom0.elems[i], getDomainFromURL(pageURL).domain)

(***************************************************************************)
(* Properties of extractPage (SpecExtract).                                *)
(***************************************************************************)
ExtractDone == call = "extractPage" /\ pc = "done"

\* the page was read, the sanitizer's tokenizer ended with io.EOF and the
\* content format is one of the three
Extracted ==
    /\ ExtractDone /\ outcome[1].kind = "doc"
    /\ tokenizerErr = "EOF" /\ format \in {"html", "md", "txt"}

\* the text of the i-th node of the page stands in the content
NodeInContent(i) == ContainsStr(pages[1].Content.markup, dom0.elems[i].val)

\* what a selector miss yields, and the content being the transformed inner
\* markup of the first matched element
FirstMatchContent ==
    /\ (ExtractDone /\ outcome[1].kind = "doc" /\ dom0.find[cssSelector] = 0 =>
          err = "selector not found" /\ result = <<>> /\ pages = <<EmptyPage>>)
    /\ (Extracted /\ dom0.find[cssSelector] > 0 =>
          /\ err = "nil" /\ result = pages
          /\ pages[1].Content =
                extractAndTransformContentFromText(
                    Html(SelectSeq(dom.elems, LAMBDA e : 1 \in e.sel)), format).content
          /\ \A i \in 1..Len(dom0.elems) :
                (dom0.elems[i].tag = "#text" /\ 1 \in dom0.elems[i].sel) => NodeInContent(i))

\* C11 (as claimed): a selector that matches nothing yields the
\* selector-not-found error and no Page; otherwise Content comes from the
\* inner markup of the first matched element and the text of a node that
\* lies in a later matched element never stands in Content.
LaterMatchesNeverInContent ==
    /\ FirstMatchContent
    /\ (Extracted /\ dom0.find[cssSelector] > 0 =>
          \A i \in 1..Len(dom0.elems) :
              (dom0.elems[i].tag = "#text" /\ dom0.elems[i].sel \ {1} # {}) =>
                  ~NodeInContent(i))

\* C11 (amended): a selector that matches nothing yields the
\* selector-not-found error and no Page; otherwise Content comes from the
\* inner markup of the first matched element only: the text of a node
\* outside the first matched element never stands in Content, while a later
\* matched element nested in the first one is part of that inner markup.
FirstMatchOnly ==
    /\ FirstMatchContent
    /\ (Extracted /\ dom0.find[cssSelector] > 0 =>
          \A i \in 1..Len(dom0.elems) :
              (dom0.elems[i].tag = "#text" /\ 1 \notin dom0.elems[i].sel) =>
                  ~NodeInContent(i))

\* two matched elements side by side: the text of the first is in the
\* content, the text of the second is not
SecondMatchLeftOutReached ==
    /\ Extracted /\ err = "nil" /\ dom0.find[cssSelector] = 2
    /\ Len(dom0.elems) = 2
    /\ dom0.elems[1].val = TextOne /\ dom0.elems[1].sel = {1}
    /\ dom0.elems[2].val = TextTwo /\ dom0.elems[2].sel = {2}
    /\ NodeInContent(1) /\ ~NodeInContent(2)

(***************************************************************************)
(* Properties of extractAndTransformContentFromText (SpecTransform).       *)
(***************************************************************************)
Transforming == call = "extractAndTransformContentFromText"

TransformDone == Transforming /\ pc = "done"

\* the fragment after entity decoding, allow-list sanitization and whitespace
\* normalization, in that order
Normalized(content) ==
    removeExcessNewlines(
        HTMLAllowing(UnescapeString(content), allowedTags, allowedAttributes).out)

ScriptOpen == <<"<", "s", "c", "r", "i", "p", "t">>

\* C12: for every format value, supported or not, the transformer decodes
\* the entities of the fragment, then sanitizes the decoded text, then
\* normalizes the whitespace of the sanitized text, and looks at the format
\* only after that; what the html, md and txt branches take is the sanitized
\* and normalized fragment, and the call as a whole yields what
\* extractAndTransformContentFromText yields.
TransformStepsInOrder ==
    Transforming =>
        /\ pc \in {"decode", "sanitize", "normalize", "switch", "done"}
        /\ (pc = "decode" => decodedContent = EmptyString)
        /\ (pc # "decode" => decodedContent = UnescapeString(htmlContent))
        /\ (pc \in {"decode", "sanitize"} => sanitizedContent = EmptyString)
        /\ (pc = "normalize" =>
               sanitizedContent =
                   HTMLAllowing(decodedContent, allowedTags, allowedAttributes).out)
        /\ (pc \in {"switch", "done"} => sanitizedContent = Normalized(htmlContent))
        /\ (pc # "done" => transformed = NoTransform)
        /\ (pc = "done" =>
               /\ transformed = extractAndTransformContentFromText(htmlContent, format)
               /\ (format \in {"html", "md", "txt"} =>
                      /\ transformed.err = "nil"
                      /\ transformed.content.format = format
                      /\ transformed.content.markup = Normalized(htmlContent)))

\* an escaped script element: decoding comes first, so the sanitizer sees the
\* element and drops it, and the branch takes a fragment that is not the raw one
EscapedScriptDroppedReached ==
    /\ TransformDone /\ tokenizerErr = "EOF" /\ format = "txt"
    /\ htmlContent = FragEscapedScript
    /\ ContainsStr(decodedContent, ScriptOpen)
    /\ ~ContainsStr(transformed.content.markup, ScriptOpen)
    /\ transformed.content.markup # htmlContent
    /\ transformed.content.markup # <<>>

\* the token t is text or a comment, or a tag of the allow-list whose
\* attributes are all of the allow-list
TokenAllowed(t) ==
    t.Type \in {"start", "end", "selfclosing"} =>
        /\ t.Data \in allowedTags
        /\ \A k \in 1..Len(t.Attr) : t.Attr[k].Key \in allowedAttributes

TokensAllowed(toks) == \A k \in 1..Len(toks) : TokenAllowed(toks[k])

\* the markup read as HTML has no tag and no attribute outside the allow-lists
AllowListed(markup) == TokensAllowed(Tokenize(markup))

TextHi == <<"h", "i">>

RunFirst(s, i, S) ==
    CHOOSE a \in 1..i : (\A k \in a..i : s[k] \in S) /\ (a = 1 \/ s[a - 1] \notin S)

RunLast(s, i, S) ==
    CHOOSE b \in i..Len(s) :
        (\A k \in i..b : s[k] \in S) /\ (b = Len(s) \/ s[b + 1] \notin S)

\* what position i of s contributes when every run of at least min
\* characters of S becomes repl: a character outside such a run stays, the
\* first character of such a run becomes repl, the others vanish
RunPiece(s, i, a, b, min, repl) ==
    IF b - a + 1 < min THEN <<s[i]>> ELSE IF i = a THEN repl ELSE <<>>

Piece(s, i, S, min, repl) ==
    IF s[i] \notin S THEN <<s[i]>>
    ELSE RunPiece(s, i, RunFirst(s, i, S), RunLast(s, i, S), min, repl)

RECURSIVE Pieces(_, _, _, _, _)
Pieces(s, n, S, min, repl) ==
    IF n = 0 THEN <<>> ELSE Pieces(s, n - 1, S, min, repl) \o Piece(s, n, S, min, repl)

RunsCollapsed(s, S, min, repl) == Pieces(s, Len(s), S, min, repl)

\* CR LF and CR turned into LF
LineFeedAt(s, i) ==
    IF s[i] # "\r" THEN <<s[i]>>
    ELSE IF i < Len(s) /\ s[i + 1] = "\n" THEN <<>> ELSE <<"\n">>

RECURSIVE LineFeeds(_, _)
LineFeeds(s, n) == IF n = 0 THEN <<>> ELSE LineFeeds(s, n - 1) \o LineFeedAt(s, n)

\* the two rewrites, in their order, on the text with LF line ends
WhitespaceCollapsed(s) == RunsCollapsed(s, Whitespace, MinSpaces, <<" ">>)

NewlinesCollapsed(s) == RunsCollapsed(s, {"\n"}, MinNewlines, <<"\n", "\n">>)

NormalizedWhitespace(s) == NewlinesCollapsed(WhitespaceCollapsed(LineFeeds(s, Len(s))))

\* no carriage return and no two neighbouring whitespace characters
Tidy(s) ==
    /\ \A i \in 1..Len(s) : s[i] # "\r"
    /\ \A i \in 1..(Len(s) - 1) : ~(s[i] \in Whitespace /\ s[i + 1] \in Whitespace)

\* what the sanitizer gave the normalization step
Sanitized == HTMLAllowing(decodedContent, allowedTags, allowedAttributes).out

\* C15: whitespace normalization turns CR LF and CR into LF, then makes every
\* run of two or more whitespace characters a single space, then makes every
\* run of three or more newlines two newlines: its output is these rewrites
\* applied in that order to the sanitized fragment (after which no carriage
\* return and no two neighbouring whitespace characters are left).
WhitespaceNormalized ==
    (Transforming /\ pc \in {"switch", "done"}) =>
        /\ sanitizedContent = NormalizedWhitespace(Sanitized)
        /\ Tidy(sanitizedContent)

\* three newlines between two letters come out as one space
NewlinesBecomeSpaceReached ==
    /\ TransformDone /\ tokenizerErr = "EOF" /\ format = "html"
    /\ htmlContent = FragNewlines
    /\ Sanitized = FragNewlines
    /\ transformed.content.markup = <<"a", " ", "b">>

\* C16: for every format value other than exactly "html", "md" or "txt" the
\* transformer returns the unsupported-format error and empty content,
\* whatever the fragment: "HTML", "Txt", "pdf" and the empty string are such
\* values.
UnsupportedFormatRejected ==
    (TransformDone /\ format \notin {"html", "md", "txt"}) =>
        /\ transformed.err = "unsupported format"
        /\ transformed.content = NoContent

\* a fragment that sanitizes to something, asked for as "HTML"
UpperCaseFormatRejectedReached ==
    /\ TransformDone /\ tokenizerErr = "EOF" /\ format = "HTML"
    /\ htmlContent = FragScript
    /\ sanitizedContent # <<>>
    /\ transformed.err = "unsupported format"
    /\ transformed.content = NoContent

(***************************************************************************)
(* Properties of the progress bar (Spec).                                  *)
(***************************************************************************)
\* the counter stands at the number of entries processed
ProgressAtEntry ==
    Crawling =>
        /\ bar = idx /\ bar = Len(outcome)
        /\ bar >= Len(pages) /\ bar <= Len(items)
        /\ (pc = "done" /\ err = "nil" => bar = Len(items))

\* a step that processes an entry adds one to the counter, whatever it does
\* with the entry; no other step touches the counter
ProgressStep ==
    /\ bar' >= bar
    /\ (Len(outcome') # Len(outcome) =>
           /\ Len(outcome') = Len(outcome) + 1
           /\ outcome'[Len(outcome')].kind \in {"filtered", "nolink", "failed", "ok"}
           /\ bar' = bar + 1)
    /\ (Len(outcome') = Len(outcome) => bar' = bar)

\* C17: the progress counter of a crawl never decreases and goes up by
\* exactly one per feed entry whatever the entry's outcome (filtered out,
\* empty RSS link, extraction failure, success): after the i-th entry it
\* equals i, it is at least the number of accumulated pages, and when the
\* crawl returns its pages it equals the number of feed entries.
ProgressCountsEntries == []ProgressAtEntry /\ [][ProgressStep]_vars

\* an RSS crawl of two entries, one without a link and one whose page fails:
\* the counter is at two with no page
ProgressWithoutPagesReached ==
    /\ call = "CrawlRSS" /\ pc = "done" /\ err = "nil"
    /\ Len(items) = 2 /\ bar = 2 /\ pages = <<>>
    /\ outcome[1].kind = "nolink" /\ outcome[2].kind = "failed"

(***************************************************************************)
(* C18: execution is strictly sequential.                                  *)
(***************************************************************************)
\* the entries of the page requests sent so far, in the order they were sent
PageEntries == SelectSeq(requests, LAMBDA r : r.entry > 0)

\* a crawler is running, or has run, only after the detection returned the
\* type it is the crawler of
DetectionCompleted ==
    /\ decodes = 1
    /\ feedType = (IF call = "CrawlRSS" THEN "rss" ELSE "sitemap")

\* while the detection runs nothing of the feed is parsed or fetched
NothingParsed == items = <<>> /\ idx = 0 /\ outcome = <<>> /\ Len(requests) <= 1

\* a page read in flight is the read of the entry after the entries that
\* have finished or failed
InFlightIsNextEntry ==
    \A r \in inflight :
        IF r.entry = 0 THEN pc = "open" /\ r = Request(feedSource, 0)
        ELSE /\ r.entry = idx + 1 /\ Len(outcome) = idx
             /\ r.url = items[r.entry].Link

\* C18: under main, at most one read is in flight at any time; the crawler
\* starts only after the detection has returned the feed type, and nothing is
\* parsed or fetched while the detection runs; the read of entry i+1 is in
\* flight only when the entries 1..i have finished or failed; and the page
\* requests are sent in feed order.
StrictlySequential ==
    /\ Cardinality(inflight) <= 1
    /\ (call \in {"CrawlSitemap", "CrawlRSS"} => DetectionCompleted)
    /\ (call = "DetectFeedType" => NothingParsed)
    /\ InFlightIsNextEntry
    /\ \A j \in 1..Len(PageEntries) : \A k \in 1..Len(PageEntries) :
           j < k => PageEntries[j].entry < PageEntries[k].entry

\* the read of the second entry is in flight after the fetch of the first
\* entry failed, in a crawl that main started after the detection
SecondReadAfterFirstFailedReached ==
    /\ caller = "main" /\ call \in {"CrawlSitemap", "CrawlRSS"}
    /\ \E r \in inflight : r.entry = 2
    /\ Len(outcome) = 1 /\ outcome[1].kind = "failed"
    /\ Len(PageEntries) = 1

(***************************************************************************)
(* C19: every read is bounded by the timeout and the crawl returns.        *)
(***************************************************************************)
\* C19: a crawl of a feed of N entries sends at most N page requests and
\* eventually returns, with every entry processed exactly once; it never
\* waits forever on a read.
CrawlEventuallyReturns ==
    /\ [](Len(PageEntries) <= Len(items))
    /\ <>(pc = "done" /\ inflight = {} /\ (err = "nil" => Len(outcome) = Len(items)))

(***************************************************************************)
(* C20: the content format the user chose is the one the crawler gets.     *)
(***************************************************************************)
\* main has passed the settings and arrived at the detection or beyond
SettingsAccepted ==
    \/ call = "main" /\ pc \in {"detect", "crawled"}
    \/ call \in {"DetectFeedType", "CrawlSitemap", "CrawlRSS"}

\* C20: for every output file type the user is asked for the content format,
\* and the format chosen by prompt or flag is the format passed to the crawler
\* and the format of each page's Content.
ChosenFormatUsed ==
    (caller = "main" /\ SettingsAccepted) =>
        /\ asked
        /\ format = chosenFormat
        /\ \A k \in 1..Len(pages) : pages[k].Content.format = chosenFormat

(***************************************************************************)
(* C21: headings of the text renderer.                                     *)
(***************************************************************************)
\* Convert has called handleElement for the node textDoc[textIdx]
Rendered == call = "Convert" /\ textIdx >= 1

\* the node handleElement was called for last, and the builder before the call
LastNode == textDoc[textIdx]

Before == Convert(SubSeq(textDoc, 1, textIdx - 1))

\* the text of a node without its line breaks
PlainText(n) == SelectSeq(Text(n), LAMBDA c : c \notin {"\n", "\r"})

\* a heading text between newlines, underlined with one dash per character
HeadingLines(text) ==
    <<"\n">> \o text \o <<"\n">> \o [i \in 1..Len(text) |-> "-"] \o <<"\n">>

\* C21: for a heading h1-h6 the renderer emits a newline, the heading text
\* without line breaks, a newline, as many dashes as the text has characters,
\* and a newline.
HeadingUnderlined ==
    (Rendered /\ NodeName(LastNode) \in {"h1", "h2", "h3", "h4", "h5", "h6"}) =>
        HasPrefix(contentBuilder, Before \o HeadingLines(PlainText(LastNode)))

(***************************************************************************)
(* C22: the lines of the items of a list.                                  *)
(***************************************************************************)
\* the builder is at the start of a line
AtLineStart(b) == b = <<>> \/ b[Len(b)] = "\n"

\* the number of li elements among the first j child elements es
ItemNumber(es, j) == Cardinality({k \in 1..j : NodeName(es[k]) = "li"})

\* 3*d spaces followed by "- " or by the number, a dot and a space
ItemLineStart(d, isOrdered, number) ==
    [k \in 1..(3 * d) |-> " "] \o
        (IF isOrdered THEN Itoa(number) \o <<".", " ">> ELSE <<"-", " ">>)

\* the builder when handleList, called with the builder b for the list n at
\* depth d, reaches the j-th child element of the list
BeforeItem(b, n, j, d) ==
    ListItems(b, SubSeq(Children(n), 1, j - 1), 1, 1, d, NodeName(n) = "ol")

\* the builder when handleList reaches the m-th child element of the item
\* that is the j-th child element of the list
BeforeNested(b, n, j, m, d) ==
    EachNested(
        EachInline(BeforeItem(b, n, j, d) \o
                       ItemLineStart(d, NodeName(n) = "ol", ItemNumber(Children(n), j)),
                   Contents(Children(n)[j]), 1, d) \o <<"\n">>,
        SubSeq(Children(Children(n)[j]), 1, m - 1), 1, d)

RECURSIVE ItemsStartLines(_, _, _, _)
\* in the output out, every item of the list n, rendered at depth d from the
\* builder b, starts a line with its indentation and its marker, and so does
\* every item of the lists that are children of its items
ItemsStartLines(out, b, n, d) ==
    \A j \in 1..Len(Children(n)) :
        LET item == Children(n)[j]
        IN  IF NodeName(item) = "li"
            THEN /\ AtLineStart(BeforeItem(b, n, j, d))
                 /\ HasPrefix(out, BeforeItem(b, n, j, d) \o
                        ItemLineStart(d, NodeName(n) = "ol", ItemNumber(Children(n), j)))
                 /\ \A m \in 1..Len(Children(item)) :
                        NodeName(Children(item)[m]) \in {"ul", "ol"} =>
                            ItemsStartLines(out, BeforeNested(b, n, j, m, d),
                                            Children(item)[m], d + 1)
            ELSE BeforeItem(b, n, j + 1, d) = BeforeItem(b, n, j, d)

\* C22: every li child of a list rendered at depth d starts a line made of
\* 3*d spaces and "- " (ul) or "N. " (ol), N counting the li children of
\* that list from 1; the other children of a list emit nothing; and
\* <ul><li>a</li><li>b</li></ul> renders as "- a\n- b\n\n".
ListItemsStartLines ==
    (Rendered /\ NodeName(LastNode) \in {"ul", "ol"}) =>
        /\ ItemsStartLines(contentBuilder, Before, LastNode, 0)
        /\ LastNode = NodeUlAB =>
               contentBuilder = Before \o <<"-", " ", "a", "\n", "-", " ", "b", "\n", "\n">>

(***************************************************************************)
(* C23: the inside of a list item.                                         *)
(***************************************************************************)
IsList(n) == NodeName(n) \in {"ul", "ol"}

IsItem(n) == NodeName(n) = "li"

RECURSIVE ItemsInOrder(_, _, _, _, _)
RECURSIVE ListsBelow(_, _, _, _)
\* the items lis from the k-th on, at depth d: the marker, the children of
\* the item that are no lists, in place at depth d, the line break of the
\* item, and then the lists that are children of the item
ItemsInOrder(b, lis, k, d, isOrdered) ==
    IF k > Len(lis) THEN b
    ELSE ItemsInOrder(
             ListsBelow(
                 EachElement(b \o ItemLineStart(d, isOrdered, k),
                             SelectSeq(Contents(lis[k]), LAMBDA c : ~IsList(c)), 1, d)
                     \o <<"\n">>,
                 SelectSeq(Children(lis[k]), IsList), 1, d + 1),
             lis, k + 1, d, isOrdered)

\* the lists ls from the m-th on, each rendered at depth d, which is 1 or
\* more, with nothing after its last item
ListsBelow(b, ls, m, d) ==
    IF m > Len(ls) THEN b
    ELSE ListsBelow(
             ItemsInOrder(b, SelectSeq(Children(ls[m]), IsItem), 1, d, NodeName(ls[m]) = "ol"),
             ls, m + 1, d)

\* a list at depth 0: its items, and a line break unless a blank line is there
ListAtTop(b, n) ==
    LET listed == ItemsInOrder(b, SelectSeq(Children(n), IsItem), 1, 0, NodeName(n) = "ol")
    IN  IF HasSuffix(listed, <<"\n", "\n">>) THEN listed ELSE listed \o <<"\n">>

\* C23: inside an li the children that are no lists are rendered first, in
\* place and at the same depth, after the marker and before the line break of
\* the item; every ul/ol child of the li is rendered after that line at
\* depth+1; a list at depth 1 or more appends no line break of its own, only
\* a list at depth 0 is followed by the line break that makes a blank line.
ItemChildrenInOrder ==
    (Rendered /\ IsList(LastNode)) => contentBuilder = ListAtTop(Before, LastNode)

NestedListRendered ==
    /\ Rendered
    /\ LastNode = NodeUlNested
    /\ contentBuilder = Before \o <<"-", " ", "a", "\n",
                                     " ", " ", " ", "1", ".", " ", "b", "\n",
                                     " ", " ", " ", "2", ".", " ", "c", "\n",
                                     "-", " ", "d", "\n", "\n">>

(***************************************************************************)
(* C24: tables.                                                            *)
(***************************************************************************)
RECURSIVE JoinCells(_)
\* the trimmed texts of the cells, joined with " | "
JoinCells(cells) ==
    IF cells = <<>> THEN <<>>
    ELSE IF Len(cells) = 1 THEN TrimSpace(Text(cells[1]))
    ELSE TrimSpace(Text(cells[1])) \o <<" ", "|", " ">> \o JoinCells(Tail(cells))

RECURSIVE RowLines(_)
\* one line for each of the rows
RowLines(rows) ==
    IF rows = <<>> THEN <<>>
    ELSE JoinCells(Children(Head(rows))) \o <<"\n">> \o RowLines(Tail(rows))

\* what the call of handleElement for the last node has appended
Appended == SubSeq(contentBuilder, Len(Before) + 1, Len(contentBuilder))

\* the characters of s that are text of a cell: all but white space and the
\* bar of the separator
CellCharacters(s) == SelectSeq(s, LAMBDA c : c \notin UnicodeSpace \cup {"|"})

\* C24: a table renders as one line per tr, the trimmed texts of the cells of
\* the row joined with " | ", and a blank line after the table; the text of
\* every cell is emitted exactly once, also when a cell holds a nested table;
\* <table><tr><td>A</td><td>B</td></tr></table> renders as "A | B\n\n".
TableCellsOnce ==
    (Rendered /\ NodeName(LastNode) = "table") =>
        /\ HasPrefix(contentBuilder, Before)
        /\ Appended = RowLines(Find(LastNode, "tr")) \o <<"\n">>
        /\ CellCharacters(Appended) = CellCharacters(Text(LastNode))
        /\ LastNode = NodeTableAB => Appended = <<"A", " ", "|", " ", "B", "\n", "\n">>

(***************************************************************************)
(* C25: the line breaks of the source text.                                *)
(***************************************************************************)
RECURSIVE WithoutBreaks(_)
RECURSIVE WithoutBreaksEach(_)
\* the node n with the line breaks taken out of the data of its text nodes
WithoutBreaks(n) ==
    [n EXCEPT !.data = SelectSeq(n.data, LAMBDA c : c \notin {"\n", "\r"}),
              !.kids = WithoutBreaksEach(n.kids)]

WithoutBreaksEach(ns) ==
    IF ns = <<>> THEN <<>> ELSE <<WithoutBreaks(Head(ns))>> \o WithoutBreaksEach(Tail(ns))

\* the node is a pre or has one below it
HasPre(n) == NodeName(n) = "pre" \/ Find(n, "pre") # <<>>

\* C25: pre emits "CODE:\n", its raw text and a newline; what is emitted for
\* any other tag, a, img and table cells included, holds no line break of the
\* source text: the output is the output for the same source without the
\* line breaks in its text.
OnlyPreKeepsBreaks ==
    Rendered =>
        /\ NodeName(LastNode) = "pre" =>
               contentBuilder =
                   Before \o <<"C", "O", "D", "E", ":", "\n">> \o Text(LastNode) \o <<"\n">>
        /\ ~HasPre(LastNode) =>
               contentBuilder = handleElement(Before, WithoutBreaks(LastNode), 0)

(***************************************************************************)
(* C26: the recursion into the children.                                   *)
(***************************************************************************)
\* the tags that the switch of handleElement has no case for
DefaultTag(tag) ==
    tag \notin {"#text", "h1", "h2", "h3", "h4", "h5", "h6", "p", "ul", "ol", "li", "br",
                "table", "a", "img", "pre"}

RECURSIVE IsChain(_)
\* default-tag elements nested one in the other, the innermost with nothing
\* but a text
IsChain(n) ==
    /\ DefaultTag(NodeName(n))
    /\ Len(Contents(n)) = 1
    /\ \/ NodeName(Contents(n)[1]) = "#text"
       \/ IsChain(Contents(n)[1])

RECURSIVE ChainLength(_)
\* the number of elements of a chain
ChainLength(n) ==
    IF NodeName(Contents(n)[1]) = "#text" THEN 1 ELSE 1 + ChainLength(Contents(n)[1])

RECURSIVE Times(_, _)
\* the text t, k times
Times(t, k) == IF k = 0 THEN <<>> ELSE t \o Times(t, k - 1)

\* C26: the children of pre, table, ul and ol are left to the handlers of
\* these tags; the element children of every other tag are rendered after the
\* tag's own output, so a chain of k nested default-tag elements with the
\* text t in the innermost one emits t exactly k times.
ChainTextRepeated ==
    Rendered =>
        /\ IsChain(LastNode) =>
               contentBuilder = Before \o Times(Text(LastNode), ChainLength(LastNode))
        /\ LastNode = NodeH1Bold =>
               contentBuilder = Before \o <<"\n", "H", "i", "\n", "-", "-", "\n", "H", "i">>
        /\ NodeName(LastNode) = "pre" =>
               contentBuilder =
                   Before \o <<"C", "O", "D", "E", ":", "\n">> \o Text(LastNode) \o <<"\n">>
        /\ NodeName(LastNode) = "table" =>
               contentBuilder = Before \o RowLines(Find(LastNode, "tr")) \o <<"\n">>
        /\ IsList(LastNode) => contentBuilder = ListAtTop(Before, LastNode)

ChainOfThreeRendered ==
    /\ Rendered
    /\ IsChain(LastNode)
    /\ ChainLength(LastNode) = 3
    /\ contentBuilder = Before \o <<"t", "t", "t">>

(***************************************************************************)
(* C29: lists below an element of a list item.                             *)
(***************************************************************************)
\* the builder when the item that is the j-th child element of the list n,
\* rendered at depth d from the builder b, reaches the i-th of its contents
BeforeContent(b, n, j, i, d) ==
    EachInline(BeforeItem(b, n, j, d) \o
                   ItemLineStart(d, NodeName(n) = "ol", ItemNumber(Children(n), j)),
               SubSeq(Contents(Children(n)[j]), 1, i - 1), 1, d)

\* the builder when the element c, rendered from the builder b, has written
\* its own output and reaches its m-th child element
BeforeChild(b, c, m, d) ==
    EachElement(ElementSwitch(b, c, d), SubSeq(Children(c), 1, m - 1), 1, d)

\* in the output out, every list that is a child of an element among the
\* contents of an item of the top-level list n starts its items with no
\* indentation and is closed with its own blank line
ListsThroughElements(out, b, n) ==
    \A j \in 1..Len(Children(n)) :
        IsItem(Children(n)[j]) =>
            \A i \in 1..Len(Contents(Children(n)[j])) :
                LET c == Contents(Children(n)[j])[i]
                IN  (NodeName(c) # "#text" /\ ~IsList(c)) =>
                        \A m \in 1..Len(Children(c)) :
                            LET l == Children(c)[m]
                                bl == BeforeChild(BeforeContent(b, n, j, i, 0), c, m, 0)
                            IN  (IsList(l) /\ Children(l) # <<>> /\ IsItem(Children(l)[1])) =>
                                    /\ HasPrefix(out, bl \o ItemLineStart(0, NodeName(l) = "ol", 1))
                                    /\ HasPrefix(out, ListAtTop(bl, l))
                                    /\ HasSuffix(ListAtTop(bl, l), <<"\n", "\n">>)

\* C29: the depth grows only for a ul/ol that is a child of an li; a list
\* that is inside an li through an element in between is rendered at the
\* depth and with the indentation of the list that contains the li, and at
\* depth 0 it gets its own closing line break inside the item.
DepthGrowsOnlyBelowItems ==
    (Rendered /\ IsList(LastNode)) =>
        /\ ListsThroughElements(contentBuilder, Before, LastNode)
        /\ LastNode = NodeUlQuote =>
               contentBuilder =
                   Before \o <<"-", " ", "q", "n", "-", " ", "n", "\n", "\n", "\n">>
        /\ LastNode = NodeUlDeepQuote =>
               contentBuilder =
                   Before \o <<"-", " ", "a", "\n",
                               " ", " ", " ", "-", " ", "n",
                               " ", " ", " ", "1", ".", " ", "n", "\n", "\n">>

ListBelowQuoteRendered ==
    /\ Rendered
    /\ LastNode = NodeUlQuote
    /\ contentBuilder = Before \o <<"-", " ", "q", "n", "-", " ", "n", "\n", "\n", "\n">>

(***************************************************************************)
(* C27: the HTTP status outside the detection.                             *)
(***************************************************************************)
\* the result of extractPage for the k-th entry had the response to its
\* request carried the status 200
ResultWithStatusOK(k) ==
    extractPage(items[k].Link, cssSelector, format, WithStatus(outcome[k].resp, StatusOK))

\* C27: extractPage and the feed fetch of the crawlers never look at the
\* HTTP status: a page response with any status whose body holds the selected
\* element yields a Page that is appended as for a 200, a feed response with
\* any status is parsed, and the status error comes from DetectFeedType alone.
StatusIgnoredOutsideDetection ==
    /\ \A k \in 1..Len(outcome) :
          outcome[k].resp.kind = "doc" =>
              /\ outcome[k].kind = IF ResultWithStatusOK(k).err = "nil" THEN "ok" ELSE "failed"
              /\ (outcome[k].resp.doc.find[cssSelector] > 0 /\ format \in {"txt", "md", "html"})
                     => outcome[k].kind = "ok"
    /\ (Crawling /\ status # 0) => (pc # "open" /\ err # "failed to fetch feed")
    /\ err = "unexpected HTTP status" =>
           (call = "DetectFeedType" \/ (call = "main" /\ pc = "exit" /\ outcome = <<>>))

NotFoundPageAppended ==
    /\ Crawling /\ pc = "done" /\ err = "nil"
    /\ status = 404
    /\ \E k \in 1..Len(outcome) :
          /\ outcome[k].kind = "ok"
          /\ outcome[k].resp.status = 404
          /\ \E j \in 1..Len(result) : result[j].URL = items[k].Link

(***************************************************************************)
(* C28: what the validators accept and what the consumers accept.          *)
(***************************************************************************)
\* executeCrawlAndExport is past the validation and the confirmation
PastSettings ==
    /\ caller = "main"
    /\ \/ call # "main"
       \/ pc \in {"detect", "crawled", "formatted", "saved"}
       \/ pc = "exit" /\ err \notin {"unsupported output file type",
                                      "unsupported content format"}

\* the crawler has consumed every entry of the feed
CrawlComplete == idx = Len(items) /\ Len(outcome) = Len(items) /\ bar = Len(items)

\* C28: the validators fold the case, the consumers do not: a content format
\* such as "HTML" passes isValidFormat and reaches the crawler unchanged,
\* where every page fails, with the unsupported-format error when its body
\* holds the selected element, the crawl returns no page and no error and
\* the run goes on to write a file without pages; an output type such as "JSON" passes isValidOutputType and is
\* rejected by FormatPages, after the complete crawl.
ValidatedButRejectedDownstream ==
    /\ (PastSettings /\ format = "HTML") =>
           /\ isValidFormat(format) /\ chosenFormat = "HTML"
           /\ pages = <<>> /\ result = <<>>
           /\ \A k \in 1..Len(outcome) :
                  /\ outcome[k].kind # "ok"
                  /\ outcome[k].resp.kind = "doc" => outcome[k].kind = "failed"
                  /\ (outcome[k].resp.kind = "doc"
                          /\ outcome[k].resp.doc.find[cssSelector] > 0) =>
                         ResultWithStatusOK(k).err = "unsupported format"
           /\ err # "unsupported format"
           /\ (call = "main" /\ pc = "saved") =>
                  file.state = "written" /\ file.content.pages = <<>>
    /\ (PastSettings /\ outputFiletype = "JSON") =>
           /\ isValidOutputType(outputFiletype)
           /\ pc \notin {"formatted", "saved"}
           /\ file = NoFile /\ writes = 0
    /\ err = "unsupported format" =>
           /\ call = "main" /\ pc = "exit" /\ outputFiletype = "JSON"
           /\ CrawlComplete /\ result = pages

UpperCaseFormatSavedNoPages ==
    /\ call = "main" /\ pc = "saved" /\ format = "HTML" /\ outputFiletype = "pdf"
    /\ file.state = "written" /\ file.content.pages = <<>>
    /\ \E k \in 1..Len(outcome) :
          /\ outcome[k].kind = "failed" /\ outcome[k].resp.kind = "doc"
          /\ outcome[k].resp.doc.find[cssSelector] > 0

(***************************************************************************)
(* C30: when the output file is written.                                   *)
(***************************************************************************)
\* executeCrawlAndExport has ended: by a fatal error, by the cancellation or
\* after the message of success
Finished == caller = "main" /\ call = "main" /\ pc \in {"exit", "cancelled", "saved"}

\* FormatPages has returned without error, which main reaches only after the
\* detection and the crawl have
FormattingSucceeded == formattedContent # NoFormatted

ValidationFailed == err \in {"unsupported output file type", "unsupported content format"}

\* C30 (as claimed): the output file is written exactly when detection, crawl
\* and formatting succeeded, whatever the number of pages; on any fatal error
\* no file is written; a validation failure comes before any network request;
\* after any answer but y there is no network request and no file write.
FileWrittenIffPipelineSucceeded ==
    caller = "main" =>
        /\ Finished => (file.state = "written" <=> FormattingSucceeded)
        /\ (call = "main" /\ pc = "exit") => file = NoFile
        /\ ValidationFailed => (requests = <<>> /\ inflight = {} /\ decodes = 0)
        /\ pc = "cancelled" => (requests = <<>> /\ inflight = {} /\ file = NoFile)

\* C30 (amended): the write of the output file is attempted exactly when
\* detection, crawl and formatting succeeded, whatever the number of pages,
\* and the file is written and success reported exactly when that write
\* succeeds too; on a fatal error of an earlier step there is no file, on a
\* fatal error of the write the file is missing or incomplete; a validation
\* failure comes before any network request; after any answer but y there is
\* no network request and no file write.
WriteAttemptedIffPipelineSucceeded ==
    caller = "main" =>
        /\ writes \in {0, 1}
        /\ Finished => (writes = 1 <=> FormattingSucceeded)
        /\ FormattingSucceeded =>
               /\ feedType \in {"rss", "sitemap"} /\ CrawlComplete
               /\ formattedContent = FormatPages(result, outputFiletype).content
        /\ (call = "main" /\ pc = "exit") => err \notin {"nil", "none"}
        /\ file.state = "written" <=> (call = "main" /\ pc = "saved")
        /\ file.state = "written" =>
               (file.content = formattedContent /\ file.type = outputFiletype /\ writes = 1)
        /\ writes = 0 => file = NoFile
        /\ (call = "main" /\ pc = "exit" /\ writes = 1) =>
               /\ err \in {"error creating file", "error writing to file"}
               /\ file.state \in {"none", "partial"}
        /\ ValidationFailed =>
               (Finished /\ requests = <<>> /\ inflight = {} /\ decodes = 0 /\ writes = 0)
        /\ pc = "cancelled" =>
               (requests = <<>> /\ inflight = {} /\ decodes = 0 /\ writes = 0)

NoPagesSaved ==
    /\ call = "main" /\ pc = "saved"
    /\ format \in {"txt", "md", "html"}
    /\ Len(items) >= 1 /\ result = <<>>
    /\ file.state = "written" /\ file.content.pages = <<>>

====
